---- MODULE Spec2Model ----
(***************************************************************************)
(* Manoel-Filmes watch-party server: the room registry (RoomManager), the  *)
(* WebSocket connection and message handlers, the periodic host check, the *)
(* Discord-session HTTP routes and the upload routes, as one state machine.*)
(* Times are milliseconds (Date.now()); file sizes are in units of 10^6    *)
(* bytes so that the bitrate arithmetic stays within TLC's integers.       *)
(***************************************************************************)
EXTENDS Integers, Naturals, Sequences, FiniteSets, TLC

VARIABLES
    rooms,                  \* RoomManager.rooms: roomId -> Room
    activeDiscordSession,   \* RoomManager.activeDiscordSession (0 = null)
    cleanupTimers,          \* RoomManager.cleanupTimers: roomId -> deadline
    sockets,                \* open WebSockets: socket id -> ws.data
    idCount,                \* number of ids handed out by generateId
    files,                  \* video files on disk: path -> size (10^6 bytes), data
    activeUploadsByRoom,    \* upload.ts activeUploadsByRoom: roomId -> uploadId
    metaCache,              \* upload.ts metaCache: uploadId -> UploadMeta
    receivedChunkSets,      \* upload.ts receivedChunkSets: uploadId -> chunk indices
    uploadDirs,             \* upload directories on disk: uploadId -> meta.json, upload.part
    fileHandleCache,        \* upload.ts fileHandleCache: uploadId -> lastUsed of its handle
    openHandles,            \* file handles of upload.part that are open: uploadId -> number
    closing,                \* uploadIds whose cached handle is in handle.close()
    opens,                  \* chunk requests that wait for fs.open of upload.part
    completes,              \* complete requests that passed validation and await
    lastActivity,           \* meta.lastActivity of the uploads on disk: uploadId -> ms
    activeWriteCounts,      \* upload.ts activeWriteCounts: uploadId -> writes under way
    writes,                 \* chunk requests whose body is being written
    uploadCount,            \* number of upload ids handed out by init
    jobs,                   \* post-processing jobs started by complete and not ended
    now,                    \* Date.now()
    roomLastSync,           \* server.ts roomLastSync: roomId -> time of the last periodic sync
    deleting,               \* rooms whose deleteRoom awaits rm of the video file
    last                    \* the last handler that ran, its answer and broadcasts

vars == <<rooms, activeDiscordSession, cleanupTimers, sockets, idCount,
          files, activeUploadsByRoom, metaCache,
          receivedChunkSets, uploadDirs, fileHandleCache, openHandles, closing,
          opens, completes, lastActivity, activeWriteCounts, writes, uploadCount,
          jobs, now, roomLastSync, deleting, last>>

uploadVars == <<activeUploadsByRoom, metaCache, receivedChunkSets, uploadDirs,
                fileHandleCache, openHandles, closing, opens, completes,
                lastActivity, activeWriteCounts, writes, uploadCount, jobs>>

----------------------------------------------------------------------------
(* Program constants *)

MAX_CLIENTS_PER_ROOM == 10
MAX_BANDWIDTH_MBPS == 150
DEFAULT_BITRATE_MBPS == 15
HOST_INACTIVE_TIMEOUT == 60000
HOST_CHECK_INTERVAL == 15000
ROOM_CLEANUP_DELAY == 30000
ROOM_TIMEOUT_MS == 600000   \* an empty room untouched for longer is removed
ROOM_SWEEP_INTERVAL == 300000  \* the period of cleanupInactiveRooms
GLOBAL_TICK_MS == 1000
HANDLE_TTL_MS == 60000
UPLOAD_TTL_MS == 1800000    \* an upload idle for longer is removed
CLEANUP_INTERVAL == 300000  \* the period of cleanupUploads
SYNC_INTERVAL_PLAYING == 2000
SYNC_INTERVAL_PAUSED == 5000
KEEP_ALIVE_MS == 5000
DURATION_SECONDS == 7200
MIN_BITRATE_MBPS == 2
MAX_BITRATE_MBPS == 50

(* Bounds of the model *)

MaxRooms == 2       \* rooms created in one behaviour
MaxUsers == 3       \* distinct Discord users
MaxSockets == 3     \* sockets open at once
MaxSeq == 2         \* largest seq a client sends
TimeStep == 60000   \* the clock moves in steps of one inactivity timeout
MaxTime == 180000   \* the clock stops here
DebounceStep == 10000  \* the clock's step while a cleanup timer is watched
MaxTicks == 12      \* runs of the global sync tick in one behaviour
MaxUploads == 2     \* uploads initialised in one behaviour
MaxChunks == 2      \* largest totalChunks of an upload
MaxWrites == 1      \* chunk requests being written at once
MaxOpens == 2       \* chunk requests waiting for fs.open at once
MaxCompletes == 2   \* complete requests under way at once
MaxSweeps == 7      \* runs of cleanupUploads in one behaviour
MaxRoomSweeps == 3  \* runs of cleanupInactiveRooms in one behaviour
MaxCrowd == 10      \* sockets open at once in a crowded room

NoToken == 0        \* the empty string as token
NoId == 0           \* the empty string as clientId / hostId, null as room id
BadToken == 99      \* a token that no room has issued
BadId == 98         \* an id that names no host

DiscordIds == 1..MaxUsers
FirstHost == 1      \* the Discord user who creates sessions
CurrentTimes == {0, 7}                   \* currentTime payloads
NoPath == 0         \* the empty string as videoPath
LibraryPath == 101  \* a file that lies in the uploads directory from the start
OutsidePath == 102  \* an existing file outside the uploads directory
MissingPath == 103  \* a path in the uploads directory with no file
FileSizes == {10, 45000}                 \* sizes of uploaded files
LibrarySize == 45000                     \* size of the files present from the start
SmallPath == 104    \* a small file that lies in the uploads directory from the start
SmallSize == 10     \* its size
SeqVals == 0..MaxSeq
NoSeq == -1         \* a message without a number as seq
NaN == -99          \* parseInt of a chunkIndex that is no number

----------------------------------------------------------------------------
(* Frames broadcast to a room *)

EmptyFn == [x \in {} |-> 0]

Frame(t, x, p) == [type |-> t, a |-> x, b |-> p]
syncFrame(ct, playing) == Frame("sync", ct, playing)

Answer(op, res, sent) == [op |-> op, res |-> res, sent |-> sent]

----------------------------------------------------------------------------
(* RoomManager: pure readers *)

(* the registry always looks empty *)
neverAnyRooms == FALSE

hasAnyRooms == DOMAIN rooms # {}

hasActiveDiscordSession == activeDiscordSession # NoId

validateToken(rs, r, token) ==
    r \in DOMAIN rs /\ token \in DOMAIN rs[r].tokenMap

isHost(rs, r, clientId) ==
    r \in DOMAIN rs /\ rs[r].state.hostId = clientId

isHostByToken(rs, r, token) ==
    /\ r \in DOMAIN rs
    /\ token \in DOMAIN rs[r].tokenMap
    /\ rs[r].tokenMap[token].isHost

getLastCommandSeq(rs, r) ==
    IF r \in DOMAIN rs THEN rs[r].state.lastCommandSeq ELSE 0

getConnectedUsers(rs, r) ==
    IF r \in DOMAIN rs
    THEN {t \in DOMAIN rs[r].tokenMap : rs[r].tokenMap[t].connected}
    ELSE {}

(* the first connected member of tokenMap that is not the host *)
getFirstConnectedUser(rs, r) ==
    LET tm == rs[r].tokenMap
        cand == {t \in DOMAIN tm : tm[t].connected /\ ~tm[t].isHost}
    IN IF cand = {} THEN NoToken
       ELSE CHOOSE t \in cand : \A u \in cand : t <= u

(* tokens are numbered in the order generateToken hands them out, which is  *)
(* the insertion order of tokenMap, so the loop keeps the smallest token    *)
(* among those with the least connectedAt                                   *)
getOldestConnectedUser(rs, r) ==
    LET tm == rs[r].tokenMap
        cand == {t \in DOMAIN tm : tm[t].connected /\ ~tm[t].isHost}
    IN IF cand = {} THEN NoToken
       ELSE CHOOSE t \in cand :
              \A u \in cand :
                 \/ tm[t].connectedAt < tm[u].connectedAt
                 \/ (tm[t].connectedAt = tm[u].connectedAt /\ t <= u)

(* inactivity judged by the heartbeat alone *)
isHostInactiveByHeartbeat(rs, r, t) ==
    /\ r \in DOMAIN rs
    /\ t - rs[r].state.hostLastHeartbeat > HOST_INACTIVE_TIMEOUT

isHostInactive(rs, r, t) ==
    /\ r \in DOMAIN rs
    /\ ~rs[r].state.isUploading
    /\ t - rs[r].state.hostLastHeartbeat > HOST_INACTIVE_TIMEOUT

----------------------------------------------------------------------------
(* RoomManager: state changes, as functions of the registry *)

updateHostHeartbeat(rs, r, t) ==
    IF r \in DOMAIN rs THEN [rs EXCEPT ![r].state.hostLastHeartbeat = t] ELSE rs

setLastCommandSeq(rs, r, seq) ==
    IF r \in DOMAIN rs THEN [rs EXCEPT ![r].state.lastCommandSeq = seq] ELSE rs

setSessionStatus(rs, r, st) ==
    IF r \in DOMAIN rs THEN [rs EXCEPT ![r].status = st] ELSE rs

markUserConnected(rs, r, token, t) ==
    IF r \in DOMAIN rs /\ token \in DOMAIN rs[r].tokenMap
    THEN [rs EXCEPT ![r].tokenMap[token] =
            [@ EXCEPT !.connected = TRUE,
                      !.connectedAt = IF @ = 0 THEN t ELSE @]]
    ELSE rs

markUserDisconnected(rs, r, token) ==
    IF r \in DOMAIN rs /\ token \in DOMAIN rs[r].tokenMap
    THEN [rs EXCEPT ![r].tokenMap[token].connected = FALSE]
    ELSE rs

(* a transfer that starts the new host's commands at seq 0 again *)
transferHostResettingSeq(rs, r, t) ==
    LET oldest == getOldestConnectedUser(rs, r)
    IN IF r \notin DOMAIN rs \/ ~rs[r].discord \/ oldest = NoToken
       THEN rs
       ELSE [rs EXCEPT
               ![r].tokenMap = [k \in DOMAIN @ |-> [@[k] EXCEPT !.isHost = (k = oldest)]],
               ![r].hostDiscordId = rs[r].tokenMap[oldest].discordId,
               ![r].state.hostLastHeartbeat = t,
               ![r].state.lastCommandSeq = 0]

(* a transfer that promotes the oldest member and leaves the other flags *)
transferHostKeepingFlags(rs, r, t) ==
    LET oldest == getOldestConnectedUser(rs, r)
    IN IF r \notin DOMAIN rs \/ ~rs[r].discord \/ oldest = NoToken
       THEN rs
       ELSE [rs EXCEPT
               ![r].tokenMap[oldest].isHost = TRUE,
               ![r].hostDiscordId = rs[r].tokenMap[oldest].discordId,
               ![r].state.hostLastHeartbeat = t]

transferHost(rs, r, t) ==
    LET oldest == getOldestConnectedUser(rs, r)
    IN IF r \notin DOMAIN rs \/ ~rs[r].discord \/ oldest = NoToken
       THEN rs
       ELSE [rs EXCEPT
               ![r].tokenMap = [k \in DOMAIN @ |-> [@[k] EXCEPT !.isHost = (k = oldest)]],
               ![r].hostDiscordId = rs[r].tokenMap[oldest].discordId,
               ![r].state.hostLastHeartbeat = t]

newRoomState(hostId, videoPath, t) ==
    [videoPath |-> videoPath, currentTime |-> 0, isPlaying |-> FALSE,
     lastUpdate |-> t, isUploading |-> FALSE, uploadProgress |-> 0,
     isProcessing |-> FALSE, processingMessage |-> "", hostId |-> hostId,
     playbackStarted |-> FALSE,
     hostLastHeartbeat |-> t, lastCommandSeq |-> 0]

----------------------------------------------------------------------------
(* RoomManager.estimateBitrate, times DURATION_SECONDS to stay in integers: *)
(* size*8 / 7200 / 10^6 Mbps with size in units of 10^6 bytes               *)
Max(a, b) == IF a >= b THEN a ELSE b
Min(a, b) == IF a <= b THEN a ELSE b

underUploads(path) == path # OutsidePath

estimateBitrate(rs, r, fs) ==
    IF r \notin DOMAIN rs \/ rs[r].state.videoPath = NoPath
       \/ rs[r].state.videoPath \notin DOMAIN fs
    THEN DEFAULT_BITRATE_MBPS * DURATION_SECONDS
    ELSE Max(MIN_BITRATE_MBPS * DURATION_SECONDS,
             Min(fs[rs[r].state.videoPath].size * 8,
                 MAX_BITRATE_MBPS * DURATION_SECONDS))

(* addClient checks the number of clients only *)
admitsByCount(rs, r, fs) == ~(Cardinality(rs[r].clients) >= MAX_CLIENTS_PER_ROOM)

(* the two admission checks of RoomManager.addClient *)
admits(rs, r, fs) ==
    LET n == Cardinality(rs[r].clients)
        b == estimateBitrate(rs, r, fs)
    IN /\ ~(n >= MAX_CLIENTS_PER_ROOM)
       /\ ~(n * b + b > MAX_BANDWIDTH_MBPS * DURATION_SECONDS)

Drop(f, k) == [x \in DOMAIN f \ {k} |-> f[x]]

(* RoomManager.deleteRoom: the registry, the marker, the sockets and the    *)
(* files after the room is gone                                             *)
roomsAfterDelete(r) == Drop(rooms, r)

(* deleteRoom leaves the marker of the active session as it is *)
activeKept(r) == activeDiscordSession

(* deleteRoom: the marker of the active session *)
activeAfterDelete(r) == IF activeDiscordSession = r THEN NoId ELSE activeDiscordSession
socketsAfterDelete(r) ==
    [s \in {x \in DOMAIN sockets : x \notin rooms[r].clients} |-> sockets[s]]
filesAfterDelete(r) ==
    LET vp == rooms[r].state.videoPath
    IN IF vp # NoPath /\ vp \in DOMAIN files /\ underUploads(vp)
       THEN Drop(files, vp) ELSE files

----------------------------------------------------------------------------
Init ==
    /\ rooms = EmptyFn
    /\ activeDiscordSession = NoId
    /\ cleanupTimers = EmptyFn
    /\ sockets = EmptyFn
    /\ idCount = 0
    /\ files = [p \in {LibraryPath, OutsidePath, SmallPath} |->
                    [size |-> IF p = SmallPath THEN SmallSize ELSE LibrarySize,
                     data |-> EmptyFn]]
    /\ activeUploadsByRoom = EmptyFn
    /\ metaCache = EmptyFn
    /\ receivedChunkSets = EmptyFn
    /\ uploadDirs = EmptyFn
    /\ fileHandleCache = EmptyFn
    /\ openHandles = EmptyFn
    /\ closing = {}
    /\ opens = {}
    /\ completes = {}
    /\ lastActivity = EmptyFn
    /\ activeWriteCounts = EmptyFn
    /\ writes = {}
    /\ uploadCount = 0
    /\ jobs = {}
    /\ now = TimeStep
    /\ roomLastSync = EmptyFn
    /\ deleting = {}
    /\ last = Answer("init", "", <<>>)

----------------------------------------------------------------------------
(* POST /api/discord-session and RoomManager.createDiscordSession *)
CreateDiscordSession(hostDiscordId, valid) ==
    /\ hasAnyRooms \/ hasActiveDiscordSession \/ ~valid \/ idCount + 2 <= 2 * MaxRooms
    /\ IF hasAnyRooms \/ hasActiveDiscordSession
       THEN /\ last' = Answer("discord-session", "409", <<>>)
            /\ UNCHANGED <<rooms, activeDiscordSession, idCount>>
       ELSE IF ~valid
       THEN /\ last' = Answer("discord-session", "400", <<>>)
            /\ UNCHANGED <<rooms, activeDiscordSession, idCount>>
       ELSE LET roomId == idCount + 1
                hostId == idCount + 2
                hostToken == 1
                hostUser == [discordId |-> hostDiscordId, isHost |-> TRUE,
                             connected |-> FALSE, connectedAt |-> now]
            IN /\ rooms' = rooms @@ (roomId :>
                     [state |-> newRoomState(hostId, NoPath, now),
                      clients |-> {},
                      discord |-> TRUE,
                      hostDiscordId |-> hostDiscordId,
                      tokenMap |-> (hostToken :> hostUser),
                      ratings |-> <<>>,
                      status |-> "waiting"])
               /\ activeDiscordSession' = roomId
               /\ idCount' = idCount + 2
               /\ last' = Answer("discord-session", "200", <<>>)
    /\ UNCHANGED <<cleanupTimers, sockets, files, now, roomLastSync, deleting, uploadVars>>

(* POST /api/create-room and RoomManager.createRoom *)
CreateRoom(videoPath) ==
    /\ hasAnyRooms \/ idCount + 2 <= 2 * MaxRooms
    /\ IF hasAnyRooms
       THEN /\ last' = Answer("create-room", "409", <<>>)
            /\ UNCHANGED <<rooms, idCount>>
       ELSE IF videoPath # NoPath /\ ~underUploads(videoPath)
       THEN /\ last' = Answer("create-room", "403", <<>>)
            /\ UNCHANGED <<rooms, idCount>>
       ELSE IF videoPath # NoPath /\ videoPath \notin DOMAIN files
       THEN /\ last' = Answer("create-room", "400", <<>>)
            /\ UNCHANGED <<rooms, idCount>>
       ELSE LET id == idCount + 1
                hostId == idCount + 2
            IN /\ rooms' = rooms @@ (id :>
                     [state |-> newRoomState(hostId, videoPath, now),
                      clients |-> {},
                      discord |-> FALSE,
                      hostDiscordId |-> 0,
                      tokenMap |-> EmptyFn,
                      ratings |-> <<>>,
                      status |-> "waiting"])
               /\ idCount' = idCount + 2
               /\ last' = Answer("create-room", "200", <<>>)
    /\ UNCHANGED <<activeDiscordSession, cleanupTimers, sockets, files, now, roomLastSync, deleting,
                   uploadVars>>

(* generateUserToken never finds a token of discordId *)
tokenOfNobody(rs, r, discordId) == NoToken

(* RoomManager.generateUserToken: the token of discordId, 0 when none *)
tokenOf(rs, r, discordId) ==
    LET owned == {t \in DOMAIN rs[r].tokenMap : rs[r].tokenMap[t].discordId = discordId}
    IN IF owned = {} THEN NoToken ELSE CHOOSE t \in owned : \A u \in owned : t <= u

(* RoomManager.generateToken: a token the room has not issued; tokens are   *)
(* named 1, 2, ... in the order the room issues them                        *)
generateToken(rs, r) == Cardinality(DOMAIN rs[r].tokenMap) + 1

(* RoomManager.generateUserToken: the token it returns, 0 for null *)
userToken(rs, r, discordId, fresh) ==
    IF r \notin DOMAIN rs \/ ~rs[r].discord THEN NoToken
    ELSE IF tokenOf(rs, r, discordId) # NoToken THEN tokenOf(rs, r, discordId)
    ELSE fresh

(* RoomManager.generateUserToken: the registry after the call *)
generateUserToken(rs, r, discordId, fresh) ==
    IF r \notin DOMAIN rs \/ ~rs[r].discord \/ tokenOf(rs, r, discordId) # NoToken
    THEN rs
    ELSE [rs EXCEPT ![r].tokenMap = @ @@ (fresh :>
            [discordId |-> discordId, isHost |-> FALSE,
             connected |-> FALSE, connectedAt |-> 0])]

(* POST /api/session-token/:roomId *)
SessionTokenWithin(limit, r, discordId) ==
    /\ IF r \notin DOMAIN rooms \/ ~rooms[r].discord
       THEN /\ last' = Answer("session-token", "404", <<>>)
            /\ rooms' = rooms
       ELSE /\ Cardinality(DOMAIN rooms[r].tokenMap) <= limit
            /\ rooms' = generateUserToken(rooms, r, discordId, generateToken(rooms, r))
            /\ last' = Answer("session-token", "200", <<>>) @@
                  [token |-> userToken(rooms, r, discordId, generateToken(rooms, r))]
    /\ UNCHANGED <<activeDiscordSession, cleanupTimers, sockets, idCount,
                   files, now, roomLastSync, deleting, uploadVars>>

(* a token request while the room has issued at most MaxUsers tokens *)
SessionToken(r, discordId) == SessionTokenWithin(MaxUsers, r, discordId)

----------------------------------------------------------------------------
(* Ratings.  A rating is a number from 1 to 10; the average is kept in      *)
(* tenths: Math.round(average * 10).                                        *)
ratedAt(seq, discordId) ==
    {i \in DOMAIN seq : seq[i].discordId = discordId}

(* every rating is appended to the list *)
addRatingAppend(rs, r, discordId, rating) ==
    IF r \notin DOMAIN rs THEN rs
    ELSE [rs EXCEPT ![r].ratings =
            Append(@, [discordId |-> discordId, rating |-> rating])]

(* RoomManager.addRating *)
addRating(rs, r, discordId, rating) ==
    IF r \notin DOMAIN rs THEN rs
    ELSE LET found == ratedAt(rs[r].ratings, discordId)
         IN IF found # {}
            THEN LET existingIndex == CHOOSE i \in found : \A j \in found : i <= j
                 IN [rs EXCEPT ![r].ratings[existingIndex].rating = rating]
            ELSE [rs EXCEPT ![r].ratings =
                    Append(@, [discordId |-> discordId, rating |-> rating])]

RECURSIVE ratingSum(_)
ratingSum(seq) ==
    IF seq = <<>> THEN 0 ELSE seq[1].rating + ratingSum(Tail(seq))

(* Math.round(x) of x = 10 * sum / n for n > 0 and sum >= 0 *)
roundTenths(sum, n) == (20 * sum + n) \div (2 * n)

(* RoomManager.getRatings *)
getRatings(rs, r) ==
    IF r \notin DOMAIN rs \/ rs[r].ratings = <<>>
    THEN [ratings |-> <<>>, average |-> 0]
    ELSE [ratings |-> rs[r].ratings,
          average |-> roundTenths(ratingSum(rs[r].ratings), Len(rs[r].ratings))]

(* all-ratings-received is sent with every rating *)
alwaysAllRated(rs, r) == TRUE

(* RoomManager.allUsersRated *)
allUsersRated(rs, r) ==
    IF r \notin DOMAIN rs THEN FALSE
    ELSE \A t \in getConnectedUsers(rs, r) :
            ratedAt(rs[r].ratings, rs[r].tokenMap[t].discordId) # {}

(* POST /api/session-rating/:roomId; token = NoToken is a body without a    *)
(* token, a rating outside 1..10 stands for every payload that              *)
(* requireNumberInRange refuses                                             *)
SessionRating(r, token, rating) ==
    /\ LET q == [op |-> "session-rating", room |-> r, token |-> token, arg |-> rating]
           refuse(code) ==
              /\ last' = q @@ [res |-> code, sent |-> <<>>, body |-> <<>>]
              /\ rooms' = rooms
       IN IF r \notin DOMAIN rooms \/ ~rooms[r].discord THEN refuse("404")
          ELSE IF token = NoToken \/ rating < 1 \/ rating > 10 THEN refuse("400")
          ELSE IF ~validateToken(rooms, r, token) THEN refuse("403")
          ELSE LET rated == addRating(rooms, r, rooms[r].tokenMap[token].discordId, rating)
                   allRated == allUsersRated(rated, r)
                   got == getRatings(rated, r)
               IN /\ rooms' = rated
                  /\ last' = q @@
                        [res |-> "200",
                         sent |-> <<Frame("rating-received", got.ratings, FALSE)>> \o
                                  (IF allRated
                                   THEN <<Frame("all-ratings-received", got.ratings,
                                                got.average)>>
                                   ELSE <<>>),
                         body |-> [allRated |-> allRated, ratings |-> got.ratings,
                                   average |-> got.average]]
    /\ UNCHANGED <<activeDiscordSession, cleanupTimers, sockets, idCount,
                   files, now, roomLastSync, deleting, uploadVars>>

----------------------------------------------------------------------------
(* server.on('upgrade') followed by wss.on('connection') *)
addClient(rs, r, s) == [rs EXCEPT ![r].clients = @ \cup {s}]

(* s names the socket the upgrade creates; the sockets that carry one token *)
(* are numbered from token * (MaxSockets + 1) + 1                          *)
newSocket(token) ==
    LET names == {token * (MaxSockets + 1) + k : k \in 1..(MaxSockets + 1)}
        free == {x \in names : x \notin DOMAIN sockets}
    IN CHOOSE x \in free : \A y \in free : x <= y

ConnectWithin(limit, r, clientId, token, s) ==
    /\ s \notin DOMAIN sockets
    /\ IF r \notin DOMAIN rooms
       THEN /\ last' = Answer("connect", "404", <<>>)
            /\ UNCHANGED <<rooms, sockets, cleanupTimers>>
       ELSE IF rooms[r].discord /\ token # NoToken /\ ~validateToken(rooms, r, token)
       THEN /\ last' = Answer("connect", "403", <<>>)
            /\ UNCHANGED <<rooms, sockets, cleanupTimers>>
       ELSE LET marked == IF token # NoToken
                          THEN markUserConnected(rooms, r, token, now)
                          ELSE rooms
                host == IF token # NoToken
                        THEN isHostByToken(marked, r, token)
                        ELSE isHost(rooms, r, clientId)
                added == addClient(marked, r, s)
            IN /\ Cardinality(DOMAIN sockets) < limit \/ ~admits(marked, r, files)
               /\ cleanupTimers' = Drop(cleanupTimers, r)
               /\ IF ~admits(marked, r, files)
                  THEN /\ rooms' = marked
                       /\ sockets' = sockets
                       /\ last' = Answer("connect", "4003", <<>>)
                  ELSE /\ rooms' = IF host THEN updateHostHeartbeat(added, r, now)
                                           ELSE added
                       /\ sockets' = sockets @@ (s :>
                             [roomId |-> r, clientId |-> clientId, token |-> token])
                       /\ last' = Answer("connect", "open", <<>>)
    /\ UNCHANGED <<activeDiscordSession, idCount, files, now, roomLastSync, deleting, uploadVars>>

(* an upgrade while at most MaxSockets sockets are open *)
Connect(r, clientId, token, s) == ConnectWithin(MaxSockets, r, clientId, token, s)

(* ws.on('close') and RoomManager.removeClient *)
removeClient(rs, r, s, token) ==
    LET left == [rs EXCEPT ![r].clients = @ \ {s}]
        stillConnected == \E c \in left[r].clients : sockets[c].token = token
    IN IF r \notin DOMAIN rs THEN rs
       ELSE IF token # NoToken /\ ~stillConnected
       THEN markUserDisconnected(left, r, token)
       ELSE left

(* the cleanup timer is set to fire at once *)
scheduleRoomCleanupNow(r) == Drop(cleanupTimers, r) @@ (r :> now)

(* RoomManager.scheduleRoomCleanup: the room's timer is replaced by one     *)
(* that fires ROOM_CLEANUP_DELAY from now                                   *)
scheduleRoomCleanup(r) == Drop(cleanupTimers, r) @@ (r :> now + ROOM_CLEANUP_DELAY)

Disconnect(s) ==
    /\ s \in DOMAIN sockets
    /\ LET r == sockets[s].roomId
       IN /\ rooms' = removeClient(rooms, r, s, sockets[s].token)
          /\ cleanupTimers' = IF r \in DOMAIN rooms /\ rooms'[r].clients = {}
                               THEN scheduleRoomCleanup(r)
                               ELSE cleanupTimers
    /\ sockets' = Drop(sockets, s)
    /\ last' = Answer("close", "", <<>>)
    /\ UNCHANGED <<activeDiscordSession, idCount, files, now, roomLastSync, deleting, uploadVars>>

----------------------------------------------------------------------------
(* handleWebSocketMessage; seq = NoSeq when the message carries no number   *)
(* as seq                                                                   *)
isCommandSeqValid(rs, r, seq) ==
    IF seq = NoSeq THEN TRUE ELSE seq > getLastCommandSeq(rs, r)

(* every sender counts as the host *)
senderAlwaysHost(s) == TRUE

senderIsHost(s) ==
    IF sockets[s].token # NoToken
    THEN isHostByToken(rooms, sockets[s].roomId, sockets[s].token)
    ELSE isHost(rooms, sockets[s].roomId, sockets[s].clientId)

(* RoomManager.updateState with the fields a command sets; lastUpdate ends  *)
(* as Date.now()                                                           *)
applyCommand(rs, r, type, currentTime, t) ==
    [rs EXCEPT ![r].state =
        [@ EXCEPT !.isPlaying = IF type = "play" THEN TRUE
                                ELSE IF type = "pause" THEN FALSE ELSE @,
                  !.currentTime = currentTime,
                  !.playbackStarted = IF type = "play" THEN TRUE ELSE @,
                  !.lastUpdate = t]]

firstPlayStarts(rs, r, type) ==
    type = "play" /\ ~rs[r].state.playbackStarted /\ rs[r].discord

(* what a socket sent and what became of it *)
Received(s, type, seq, res, sent) ==
    [op |-> type, res |-> res, sent |-> sent, from |-> s, seq |-> seq]

HostCommand(s, type, currentTime, seq) ==
    /\ s \in DOMAIN sockets
    /\ LET r == sockets[s].roomId
           beat == updateHostHeartbeat(rooms, r, now)
           applied == applyCommand(beat, r, type, currentTime, now)
           started == IF firstPlayStarts(rooms, r, type)
                      THEN setSessionStatus(applied, r, "playing")
                      ELSE applied
           frames == (IF firstPlayStarts(rooms, r, type)
                      THEN <<Frame("session-status", 0, FALSE)>> ELSE <<>>)
                     \o <<syncFrame(currentTime, applied[r].state.isPlaying)>>
       IN IF ~senderIsHost(s)
          THEN /\ rooms' = rooms
               /\ last' = Received(s, type, seq, "not-host", <<>>)
          ELSE IF ~isCommandSeqValid(rooms, r, seq)
          THEN /\ rooms' = rooms
               /\ last' = Received(s, type, seq, "stale-seq", <<>>)
          ELSE /\ rooms' = IF seq # NoSeq THEN setLastCommandSeq(started, r, seq)
                                         ELSE started
               /\ last' = Received(s, type, seq, "applied", frames)
    /\ UNCHANGED <<activeDiscordSession, cleanupTimers, sockets, idCount,
                   files, now, roomLastSync, deleting, uploadVars>>

HostHeartbeat(s) ==
    /\ s \in DOMAIN sockets
    /\ IF senderIsHost(s)
       THEN /\ rooms' = updateHostHeartbeat(rooms, sockets[s].roomId, now)
            /\ last' = Received(s, "host-heartbeat", NoSeq, "applied", <<>>)
       ELSE /\ rooms' = rooms
            /\ last' = Received(s, "host-heartbeat", NoSeq, "not-host", <<>>)
    /\ UNCHANGED <<activeDiscordSession, cleanupTimers, sockets, idCount,
                   files, now, roomLastSync, deleting, uploadVars>>

----------------------------------------------------------------------------
(* the host-check interval of server.ts, for one room of forEachRoom *)
hostCheckSkips(rs, r) ==
    \/ ~rs[r].discord
    \/ rs[r].clients = {}
    \/ rs[r].status = "ended"

HostCheck(r) ==
    /\ r \in DOMAIN rooms
    /\ LET newHost == getOldestConnectedUser(rooms, r)
       IN IF ~hostCheckSkips(rooms, r) /\ isHostInactive(rooms, r, now)
          THEN /\ rooms' = transferHost(rooms, r, now)
               /\ last' = IF newHost # NoToken
                          THEN Answer("host-check", "transferred",
                                 <<Frame("host-changed",
                                         rooms[r].tokenMap[newHost].discordId, FALSE)>>)
                          ELSE Answer("host-check", "no-candidate", <<>>)
          ELSE /\ rooms' = rooms
               /\ last' = Answer("host-check", "kept", <<>>)
    /\ UNCHANGED <<activeDiscordSession, cleanupTimers, sockets, idCount,
                   files, now, roomLastSync, deleting, uploadVars>>

----------------------------------------------------------------------------
(* upload.ts *)
updateState(rs, r, upd, t) ==
    IF r \in DOMAIN rs
    THEN [rs EXCEPT ![r].state =
            [f \in DOMAIN @ |-> IF f = "lastUpdate" THEN t
                                ELSE IF f \in DOMAIN upd THEN upd[f] ELSE @[f]]]
    ELSE rs

(* authorization that accepts the token of any member *)
ensureUploadAuthorizedForMembers(rs, r, token, hostId) ==
    IF r \notin DOMAIN rs THEN "404"
    ELSE IF rs[r].status = "ended" THEN "403"
    ELSE IF rs[r].discord
         THEN IF token = NoToken \/ ~validateToken(rs, r, token) THEN "403" ELSE ""
         ELSE IF hostId = NoId \/ rs[r].state.hostId # hostId THEN "403" ELSE ""

(* "" when the request may proceed, else the status of the refusal *)
ensureUploadAuthorized(rs, r, token, hostId) ==
    IF r \notin DOMAIN rs THEN "404"
    ELSE IF rs[r].status = "ended" THEN "403"
    ELSE IF rs[r].discord
         THEN IF token = NoToken \/ ~isHostByToken(rs, r, token) THEN "403" ELSE ""
         ELSE IF hostId = NoId \/ rs[r].state.hostId # hostId THEN "403" ELSE ""

(* Math.round(received / totalChunks * 100), for a divisor of either sign *)
roundPercent(received, totalChunks) ==
    IF totalChunks > 0
    THEN (200 * received + totalChunks) \div (2 * totalChunks)
    ELSE (0 - 200 * received - totalChunks) \div (0 - 2 * totalChunks)

computeUploadProgress(meta, received) ==
    IF meta.totalChunks = 0 THEN 0
    ELSE Min(99, roundPercent(Cardinality(received), meta.totalChunks))

clearMetaCache(u) ==
    /\ metaCache' = Drop(metaCache, u)
    /\ receivedChunkSets' = Drop(receivedChunkSets, u)

(* closeUploadHandle: the handle cache after the call *)
closeUploadHandle(u) ==
    IF u \in DOMAIN activeWriteCounts /\ activeWriteCounts[u] > 0
    THEN fileHandleCache
    ELSE Drop(fileHandleCache, u)

openCount(handles, u) == IF u \in DOMAIN handles THEN handles[u] ELSE 0

(* the open handles of upload.part after n of them were opened or closed *)
handlesWith(u, n) ==
    LET left == openCount(openHandles, u) + n
    IN IF left <= 0 THEN Drop(openHandles, u) ELSE Drop(openHandles, u) @@ (u :> left)

(* closeUploadHandle: the open handles after cached.handle.close(); a       *)
(* handle that another call is closing is not closed twice                  *)
handlesAfterClose(u) ==
    IF (u \in DOMAIN activeWriteCounts /\ activeWriteCounts[u] > 0)
       \/ u \notin DOMAIN fileHandleCache \/ u \in closing
    THEN openHandles
    ELSE handlesWith(u, -1)

(* what an upload route was asked, by whom, and what it answered: arg is    *)
(* totalChunks for init and complete and chunkIndex for chunk, arg2 is the  *)
(* chunkSize of init                                                        *)
Request(op, r, token, hostId, u, arg, arg2) ==
    [op |-> op, room |-> r, token |-> token, hostId |-> hostId,
     upload |-> u, arg |-> arg, arg2 |-> arg2]

Asked(q, res, sent) ==
    [op |-> q.op, res |-> res, sent |-> sent, room |-> q.room, token |-> q.token,
     hostId |-> q.hostId, upload |-> q.upload, arg |-> q.arg, arg2 |-> q.arg2,
     body |-> <<>>]

Refused(q, code) ==
    /\ last' = Asked(q, code, <<>>)
    /\ UNCHANGED <<rooms, files, uploadVars>>

sessionFrame ==
    <<activeDiscordSession, cleanupTimers, sockets, idCount, now, roomLastSync, deleting>>

(* fs.open(partPath, "w+") and truncate(totalSize) *)
newPart(totalSize) == [size |-> Max(totalSize, 0), data |-> EmptyFn]

(* init is never refused for processing *)
neverProcessing(rs, r) == FALSE

(* room.state.isProcessing, as init reads it *)
initWhileProcessing(rs, r) == rs[r].state.isProcessing

(* Number(x) || 0 is falsy only for 0 *)
invalidInit(totalChunks, chunkSize) == totalChunks = 0 \/ chunkSize = 0

(* init purges nothing *)
noCurrentUpload(r) == {}

(* activeUploadsByRoom.get(roomId), as the set of uploads that init purges *)
currentUpload(r) ==
    IF r \in DOMAIN activeUploadsByRoom THEN {activeUploadsByRoom[r]} ELSE {}

(* POST /init/:roomId *)
UploadInit(r, token, hostId, filename, totalChunks, chunkSize, totalSize) ==
    /\ LET q == Request("upload-init", r, token, hostId, 0, totalChunks, chunkSize)
           auth == ensureUploadAuthorized(rooms, r, token, hostId)
           u == uploadCount + 1
           meta == [roomId |-> r, filename |-> filename, totalChunks |-> totalChunks,
                    chunkSize |-> chunkSize, totalSize |-> totalSize]
           keep(f) == [x \in DOMAIN f \ currentUpload(r) |-> f[x]]
       IN IF auth # "" THEN Refused(q, auth)
          ELSE IF initWhileProcessing(rooms, r) THEN Refused(q, "409")
          ELSE IF invalidInit(totalChunks, chunkSize) THEN Refused(q, "400")
          ELSE /\ uploadCount < MaxUploads
               /\ uploadDirs' = keep(uploadDirs)
                                @@ (u :> [meta |-> meta, part |-> newPart(totalSize)])
               /\ metaCache' = keep(metaCache) @@ (u :> meta)
               /\ lastActivity' = keep(lastActivity) @@ (u :> now)
               /\ receivedChunkSets' = keep(receivedChunkSets) @@ (u :> {})
               /\ activeUploadsByRoom' = Drop(activeUploadsByRoom, r) @@ (r :> u)
               /\ uploadCount' = u
               /\ rooms' = updateState(rooms, r,
                              [isUploading |-> TRUE, uploadProgress |-> 0], now)
               /\ last' = Asked([q EXCEPT !.upload = u], "200",
                                <<Frame("upload-start", filename, FALSE)>>)
               /\ UNCHANGED <<files, fileHandleCache, openHandles, activeWriteCounts,
                              writes, opens, closing, completes, jobs>>
    /\ UNCHANGED sessionFrame

(* getOrLoadMeta: the cached meta, else meta.json of the directory, whose   *)
(* receivedChunks are those of init                                         *)
loadedMeta(u) == IF u \in DOMAIN metaCache THEN metaCache[u] ELSE uploadDirs[u].meta
loadedReceived(u) ==
    IF u \in DOMAIN metaCache /\ u \in DOMAIN receivedChunkSets
    THEN receivedChunkSets[u] ELSE {}
cacheWith(u) ==
    IF u \in DOMAIN metaCache THEN metaCache ELSE metaCache @@ (u :> uploadDirs[u].meta)
setsWith(u, set) == Drop(receivedChunkSets, u) @@ (u :> set)

(* every comparison with NaN is false *)
invalidChunk(chunkIndex, totalChunks) ==
    chunkIndex # NaN /\ (chunkIndex < 0 \/ chunkIndex >= totalChunks)

(* fileHandle.write(chunk, 0, chunk.length, offset) *)
(* every chunk is written at the start of the part file *)
writeAtStart(part, offset, data) ==
    LET written == 0 .. (Len(data) - 1)
    IN [size |-> Max(part.size, Len(data)),
        data |-> [p \in DOMAIN part.data \cup written |->
                     IF p \in written THEN data[p + 1] ELSE part.data[p]]]

(* fileHandle.write(chunk, 0, chunk.length, offset) for the whole body *)
writeAt(part, offset, data) ==
    LET written == offset .. (offset + Len(data) - 1)
    IN [size |-> Max(part.size, offset + Len(data)),
        data |-> [p \in DOMAIN part.data \cup written |->
                     IF p \in written THEN data[p - offset + 1] ELSE part.data[p]]]

(* POST /chunk/:roomId/:uploadId/:chunkIndex, up to the first write of the  *)
(* request body.  A request whose chunkIndex is no number has an empty body *)
(* here: where a write without a position lands is left to the runtime.     *)
UploadChunk(r, token, hostId, u, chunkIndex, data) ==
    /\ chunkIndex = NaN => data = <<>>
    /\ LET q == Request("upload-chunk", r, token, hostId, u, chunkIndex, 0)
           auth == ensureUploadAuthorized(rooms, r, token, hostId)
       IN IF auth # "" THEN Refused(q, auth)
          ELSE IF u \notin DOMAIN uploadDirs THEN Refused(q, "404")
          ELSE IF loadedMeta(u).roomId # r THEN Refused(q, "400")
          ELSE IF invalidChunk(chunkIndex, loadedMeta(u).totalChunks)
               THEN Refused(q, "400")
          ELSE LET w == [q |-> q, meta |-> loadedMeta(u), data |-> data]
               IN /\ w \notin writes
                  /\ Cardinality(writes) < MaxWrites
                  /\ metaCache' = cacheWith(u)
                  /\ receivedChunkSets' =
                        IF u \in DOMAIN metaCache THEN receivedChunkSets
                        ELSE setsWith(u, {})
                  /\ fileHandleCache' = Drop(fileHandleCache, u) @@ (u :> now)
                  /\ openHandles' = IF u \in DOMAIN fileHandleCache THEN openHandles
                                    ELSE handlesWith(u, 1)
                  /\ UNCHANGED <<opens, closing, completes, lastActivity>>
                  /\ activeWriteCounts' = Drop(activeWriteCounts, u) @@
                        (u :> (IF u \in DOMAIN activeWriteCounts
                               THEN activeWriteCounts[u] ELSE 0) + 1)
                  /\ writes' = writes \cup {w}
                  /\ last' = Asked(q, "writing", <<>>)
                  /\ UNCHANGED <<rooms, files, activeUploadsByRoom, uploadDirs,
                                 uploadCount, jobs>>
    /\ UNCHANGED sessionFrame

(* the chunk request after its body was written, or after a write failed    *)
ChunkWritten(w, ok) ==
    /\ w \in writes
    /\ writes' = writes \ {w}
    /\ UNCHANGED <<opens, closing, completes>>
    /\ lastActivity' =
          IF ok /\ w.q.upload \in DOMAIN lastActivity
          THEN [lastActivity EXCEPT ![w.q.upload] = now] ELSE lastActivity
    /\ LET u == w.q.upload
           r == w.q.room
           remaining == (IF u \in DOMAIN activeWriteCounts
                         THEN activeWriteCounts[u] ELSE 1) - 1
           set == (IF u \in DOMAIN receivedChunkSets
                   THEN receivedChunkSets[u] ELSE {}) \cup {w.q.arg}
           progress == computeUploadProgress(w.meta, set)
       IN /\ activeWriteCounts' =
                IF remaining <= 0 THEN Drop(activeWriteCounts, u)
                ELSE Drop(activeWriteCounts, u) @@ (u :> remaining)
          /\ IF ok
             THEN /\ uploadDirs' =
                        IF u \in DOMAIN uploadDirs
                        THEN [uploadDirs EXCEPT ![u].part =
                                writeAt(@, w.q.arg * w.meta.chunkSize, w.data)]
                        ELSE uploadDirs
                  /\ files' =
                        IF u \notin DOMAIN uploadDirs /\ u \in DOMAIN files
                        THEN [files EXCEPT ![u] =
                                writeAt(@, w.q.arg * w.meta.chunkSize, w.data)]
                        ELSE files
                  /\ receivedChunkSets' = setsWith(u, set)
                  /\ activeUploadsByRoom' = Drop(activeUploadsByRoom, r) @@ (r :> u)
                  /\ rooms' = updateState(rooms, r,
                        [isUploading |-> TRUE, uploadProgress |-> progress], now)
                  /\ last' = Asked([w.q EXCEPT !.op = "chunk-written"], "200",
                        IF r \in DOMAIN rooms
                        THEN <<Frame("upload-progress", progress, FALSE)>> ELSE <<>>)
             ELSE /\ last' = Asked([w.q EXCEPT !.op = "chunk-written"], "500", <<>>)
                  /\ UNCHANGED <<rooms, files, uploadDirs, receivedChunkSets,
                                 activeUploadsByRoom>>
    /\ UNCHANGED <<metaCache, fileHandleCache, openHandles, uploadCount, jobs>>
    /\ UNCHANGED sessionFrame

(* Array.from(receivedSet).sort((a, b) => a - b) *)
RECURSIVE sortedChunks(_)
sortedChunks(set) ==
    IF set = {} THEN <<>>
    ELSE LET least == CHOOSE x \in set : \A y \in set : x <= y
         IN <<least>> \o sortedChunks(set \ {least})

(* POST /chunk/:roomId/:uploadId/:chunkIndex of a request that finds no     *)
(* cached handle, up to `await fs.open(partPath, "r+")` in getUploadHandle  *)
ChunkBegin(r, token, hostId, u, chunkIndex, data) ==
    /\ chunkIndex = NaN => data = <<>>
    /\ u \notin DOMAIN fileHandleCache
    /\ LET q == Request("upload-chunk", r, token, hostId, u, chunkIndex, 0)
           auth == ensureUploadAuthorized(rooms, r, token, hostId)
       IN IF auth # "" THEN Refused(q, auth)
          ELSE IF u \notin DOMAIN uploadDirs THEN Refused(q, "404")
          ELSE IF loadedMeta(u).roomId # r THEN Refused(q, "400")
          ELSE IF invalidChunk(chunkIndex, loadedMeta(u).totalChunks)
               THEN Refused(q, "400")
          ELSE LET o == [q |-> q, meta |-> loadedMeta(u), data |-> data]
               IN /\ o \notin opens \cup writes
                  /\ Cardinality(opens) < MaxOpens
                  /\ metaCache' = cacheWith(u)
                  /\ receivedChunkSets' =
                        IF u \in DOMAIN metaCache THEN receivedChunkSets
                        ELSE setsWith(u, {})
                  /\ opens' = opens \cup {o}
                  /\ last' = Asked(q, "opening", <<>>)
                  /\ UNCHANGED <<rooms, files, activeUploadsByRoom, uploadDirs,
                                 fileHandleCache, openHandles, closing,
                                 activeWriteCounts, writes, uploadCount, jobs,
                   completes, lastActivity>>
    /\ UNCHANGED sessionFrame

(* fs.open of getUploadHandle ends: the handle is cached in place of the    *)
(* one that may be there, the write is counted and the body is written; an  *)
(* upload.part that is gone makes fs.open throw, and the request ends       *)
(* without an answer                                                        *)
HandleOpened(o) ==
    /\ o \in opens
    /\ opens' = opens \ {o}
    /\ LET u == o.q.upload
       IN IF u \notin DOMAIN uploadDirs
          THEN /\ last' = Asked([o.q EXCEPT !.op = "chunk-open"], "thrown", <<>>)
               /\ UNCHANGED <<fileHandleCache, openHandles, activeWriteCounts, writes>>
          ELSE /\ Cardinality(writes) < MaxWrites
               /\ fileHandleCache' = Drop(fileHandleCache, u) @@ (u :> now)
               /\ openHandles' = handlesWith(u, 1)
               /\ activeWriteCounts' = Drop(activeWriteCounts, u) @@
                     (u :> (IF u \in DOMAIN activeWriteCounts
                            THEN activeWriteCounts[u] ELSE 0) + 1)
               /\ writes' = writes \cup {o}
               /\ last' = Asked([o.q EXCEPT !.op = "chunk-open"], "writing", <<>>)
    /\ UNCHANGED <<rooms, files, activeUploadsByRoom, metaCache, receivedChunkSets,
                   uploadDirs, closing, uploadCount, jobs,
                   completes, lastActivity>>
    /\ UNCHANGED sessionFrame

(* the idle handle sweeper reaches an upload whose handle is idle and has   *)
(* no write under way: closeUploadHandle, up to `await cached.handle.close()` *)
SweepBegin(u) ==
    /\ u \in DOMAIN fileHandleCache
    /\ ~(u \in DOMAIN activeWriteCounts /\ activeWriteCounts[u] > 0)
    /\ now - fileHandleCache[u] > HANDLE_TTL_MS
    /\ closing' = closing \cup {u}
    /\ last' = Answer("sweep", "closing", <<>>) @@ [upload |-> u]
    /\ UNCHANGED <<rooms, files, activeUploadsByRoom, metaCache, receivedChunkSets,
                   uploadDirs, fileHandleCache, openHandles, opens, activeWriteCounts,
                   writes, uploadCount, jobs,
                   completes, lastActivity>>
    /\ UNCHANGED sessionFrame

(* handle.close() of the sweeper ends: fileHandleCache.delete(uploadId) *)
HandleClosed(u) ==
    /\ u \in closing
    /\ closing' = closing \ {u}
    /\ fileHandleCache' = Drop(fileHandleCache, u)
    /\ openHandles' = handlesWith(u, -1)
    /\ last' = Answer("sweep", "closed", <<>>) @@ [upload |-> u]
    /\ UNCHANGED <<rooms, files, activeUploadsByRoom, metaCache, receivedChunkSets,
                   uploadDirs, opens, activeWriteCounts, writes, uploadCount, jobs,
                   completes, lastActivity>>
    /\ UNCHANGED sessionFrame

(* cleanupUploads, run by its interval timer CLEANUP_INTERVAL after its     *)
(* last run: the meta of every upload directory is taken from the cache or  *)
(* read from disk into it, and a directory idle for more than UPLOAD_TTL_MS *)
(* is removed with its handle and its cache entries                         *)
CleanupUploads ==
    LET t == now + CLEANUP_INTERVAL
        gone == {u \in DOMAIN uploadDirs : t - lastActivity[u] > UPLOAD_TTL_MS}
        read == DOMAIN uploadDirs \ DOMAIN metaCache
        keep(f) == [x \in DOMAIN f \ gone |-> f[x]]
    IN /\ t <= TimeStep + MaxSweeps * CLEANUP_INTERVAL
       /\ now' = t
       /\ metaCache' = [u \in (DOMAIN metaCache \cup read) \ gone |-> loadedMeta(u)]
       /\ receivedChunkSets' =
            [u \in (DOMAIN receivedChunkSets \cup read) \ gone |->
                IF u \in read THEN {} ELSE receivedChunkSets[u]]
       /\ uploadDirs' = keep(uploadDirs)
       /\ lastActivity' = keep(lastActivity)
       /\ fileHandleCache' =
            [u \in {x \in DOMAIN fileHandleCache :
                       x \in gone => x \in DOMAIN activeWriteCounts
                                      /\ activeWriteCounts[x] > 0} |-> fileHandleCache[u]]
       /\ openHandles' =
            LET after(u) == IF u \in gone THEN openCount(handlesAfterClose(u), u)
                            ELSE openHandles[u]
            IN [u \in {x \in DOMAIN openHandles : after(x) > 0} |-> after(u)]
       /\ last' = Answer("cleanup-uploads", "", <<>>) @@ [removed |-> gone]
       /\ UNCHANGED <<rooms, activeDiscordSession, cleanupTimers, sockets, idCount,
                      files, roomLastSync, deleting, activeUploadsByRoom, activeWriteCounts,
                      writes, opens, closing, completes, uploadCount, jobs>>

(* the progress that status stores and broadcasts *)
statusProgress(meta, set) ==
    IF meta.totalChunks > 0 THEN roundPercent(Cardinality(set), meta.totalChunks) ELSE 0

(* GET /status/:roomId/:uploadId *)
UploadStatus(r, token, hostId, u) ==
    /\ LET q == Request("upload-status", r, token, hostId, u, 0, 0)
           auth == ensureUploadAuthorized(rooms, r, token, hostId)
       IN IF auth # "" THEN Refused(q, auth)
          ELSE IF u \notin DOMAIN uploadDirs THEN Refused(q, "404")
          ELSE IF loadedMeta(u).roomId # r THEN Refused(q, "400")
          ELSE LET set == loadedReceived(u)
                   progress == statusProgress(loadedMeta(u), set)
               IN /\ metaCache' = cacheWith(u)
                  /\ receivedChunkSets' = setsWith(u, set)
                  /\ rooms' = updateState(rooms, r,
                        [isUploading |-> TRUE, uploadProgress |-> progress], now)
                  /\ last' = [Asked(q, "200", <<Frame("upload-progress", progress, FALSE)>>)
                                EXCEPT !.body = sortedChunks(set)]
                  /\ UNCHANGED <<files, activeUploadsByRoom, uploadDirs, fileHandleCache,
                                 openHandles, activeWriteCounts, writes, opens,
                                 closing, completes, lastActivity, uploadCount, jobs>>
    /\ UNCHANGED sessionFrame

(* POST /progress/:roomId; u = 0 when the body names no upload *)
UploadProgress(r, token, hostId, u) ==
    /\ LET q == Request("upload-progress", r, token, hostId, u, 0, 0)
           auth == ensureUploadAuthorized(rooms, r, token, hostId)
           effective == IF u # 0 THEN u
                        ELSE IF r \in DOMAIN activeUploadsByRoom
                             THEN activeUploadsByRoom[r] ELSE 0
       IN IF auth # "" THEN Refused(q, auth)
          ELSE IF effective = 0 \/ effective \notin DOMAIN uploadDirs
          THEN /\ last' = Asked(q, "200", <<>>)
               /\ UNCHANGED <<rooms, files, uploadVars>>
          ELSE /\ activeUploadsByRoom' = Drop(activeUploadsByRoom, r) @@ (r :> effective)
               /\ lastActivity' =
                     IF effective \in DOMAIN metaCache
                     THEN [lastActivity EXCEPT ![effective] = now] ELSE lastActivity
               /\ metaCache' = cacheWith(effective)
               /\ UNCHANGED <<files, uploadDirs, fileHandleCache, openHandles,
                              activeWriteCounts, writes, opens, closing, completes,
                              uploadCount, jobs>>
               /\ IF loadedMeta(effective).roomId = r
                  THEN LET set == loadedReceived(effective)
                           progress == computeUploadProgress(loadedMeta(effective), set)
                       IN /\ receivedChunkSets' = setsWith(effective, set)
                          /\ rooms' = updateState(rooms, r,
                                [isUploading |-> TRUE, uploadProgress |-> progress], now)
                          /\ last' = Asked(q, "200",
                                <<Frame("upload-progress", progress, FALSE)>>)
                  ELSE /\ receivedChunkSets' =
                            IF effective \in DOMAIN metaCache
                            THEN receivedChunkSets
                            ELSE setsWith(effective, {})
                       /\ rooms' = rooms
                       /\ last' = Asked(q, "200", <<>>)
    /\ UNCHANGED sessionFrame

(* POST /abort/:roomId/:uploadId *)
UploadAbort(r, token, hostId, u) ==
    /\ LET q == Request("upload-abort", r, token, hostId, u, 0, 0)
           auth == ensureUploadAuthorized(rooms, r, token, hostId)
       IN IF auth # "" THEN Refused(q, auth)
          ELSE /\ fileHandleCache' = closeUploadHandle(u)
               /\ openHandles' = handlesAfterClose(u)
               /\ clearMetaCache(u)
               /\ uploadDirs' = Drop(uploadDirs, u)
               /\ activeUploadsByRoom' =
                     IF r \in DOMAIN activeUploadsByRoom /\ activeUploadsByRoom[r] = u
                     THEN Drop(activeUploadsByRoom, r) ELSE activeUploadsByRoom
               /\ rooms' = updateState(rooms, r,
                     [isUploading |-> FALSE, uploadProgress |-> 0], now)
               /\ last' = Asked(q, "200", <<Frame("upload-progress", 0, FALSE)>>)
               /\ lastActivity' = Drop(lastActivity, u)
               /\ UNCHANGED <<files, activeWriteCounts, writes, opens, closing, completes,
                              uploadCount, jobs>>
    /\ UNCHANGED sessionFrame

(* the count that complete compares the received set with: the totalChunks  *)
(* of the request body                                                      *)
expectedChunks(meta, totalChunks) == totalChunks

(* the room keeps uploading when complete has answered *)
uploadingState ==
    [isUploading |-> TRUE, uploadProgress |-> 100,
     isProcessing |-> TRUE, processingMessage |-> "starting"]

(* the state of the room when complete has answered *)
processingState ==
    [isUploading |-> FALSE, uploadProgress |-> 100,
     isProcessing |-> TRUE, processingMessage |-> "starting"]

(* POST /complete/:roomId/:uploadId, up to the response; totalChunks is the *)
(* value of the request body                                                *)
UploadComplete(r, token, hostId, u, totalChunks) ==
    /\ LET q == Request("upload-complete", r, token, hostId, u, totalChunks, 0)
           auth == ensureUploadAuthorized(rooms, r, token, hostId)
           received == IF u \in DOMAIN receivedChunkSets
                       THEN Cardinality(receivedChunkSets[u]) ELSE 0
       IN IF auth # "" THEN Refused(q, auth)
          ELSE IF u \notin DOMAIN metaCache \/ metaCache[u].roomId # r
               THEN Refused(q, "400")
          ELSE IF u \notin DOMAIN receivedChunkSets
                  \/ received # expectedChunks(metaCache[u], totalChunks)
               THEN /\ last' = [Asked(q, "400", <<>>)
                                  EXCEPT !.body = <<received, totalChunks>>]
                    /\ UNCHANGED <<rooms, files, uploadVars>>
          ELSE /\ u \in DOMAIN uploadDirs
               /\ fileHandleCache' = closeUploadHandle(u)
               /\ openHandles' = handlesAfterClose(u)
               /\ clearMetaCache(u)
               /\ files' = Drop(files, u) @@ (u :> uploadDirs[u].part)
               /\ uploadDirs' = Drop(uploadDirs, u)
               /\ activeUploadsByRoom' =
                     IF r \in DOMAIN activeUploadsByRoom /\ activeUploadsByRoom[r] = u
                     THEN Drop(activeUploadsByRoom, r) ELSE activeUploadsByRoom
               /\ rooms' = updateState(rooms, r, processingState, now)
               /\ jobs' = jobs \cup {[roomId |-> r, path |-> u]}
               /\ last' = Asked(q, "200", <<Frame("processing-progress", 0, FALSE)>>)
               /\ lastActivity' = Drop(lastActivity, u)
               /\ UNCHANGED <<activeWriteCounts, writes, opens, closing, completes,
                              uploadCount>>
    /\ UNCHANGED sessionFrame

(* POST /complete/:roomId/:uploadId up to the first await of file I/O:      *)
(* the validation, then `await closeUploadHandle` and `await                *)
(* syncMetaToDisk`, during which other requests are served.  slot tells     *)
(* the requests under way apart.                                            *)
CompleteBegin(r, token, hostId, u, totalChunks, slot) ==
    /\ LET q == Request("upload-complete", r, token, hostId, u, totalChunks, 0)
           auth == ensureUploadAuthorized(rooms, r, token, hostId)
           received == IF u \in DOMAIN receivedChunkSets
                       THEN Cardinality(receivedChunkSets[u]) ELSE 0
       IN IF auth # "" THEN Refused(q, auth)
          ELSE IF u \notin DOMAIN metaCache \/ metaCache[u].roomId # r
               THEN Refused(q, "400")
          ELSE IF u \notin DOMAIN receivedChunkSets
                  \/ received # expectedChunks(metaCache[u], totalChunks)
               THEN /\ last' = [Asked(q, "400", <<>>)
                                  EXCEPT !.body = <<received, totalChunks>>]
                    /\ UNCHANGED <<rooms, files, uploadVars>>
          ELSE /\ \A c \in completes : c.slot # slot
               /\ completes' = completes \cup {[q |-> q, slot |-> slot]}
               /\ last' = Asked(q, "validated", <<>>)
               /\ UNCHANGED <<rooms, files, activeUploadsByRoom, metaCache,
                              receivedChunkSets, uploadDirs, fileHandleCache,
                              openHandles, closing, opens, activeWriteCounts,
                              writes, uploadCount, jobs, lastActivity>>
    /\ UNCHANGED sessionFrame

(* the rest of POST /complete/:roomId/:uploadId: the handle is closed, the  *)
(* caches are cleared and upload.part is renamed; fs.rename of a part file  *)
(* that is gone throws, and the request ends without an answer and without  *)
(* a job                                                                    *)
CompleteEnd(c) ==
    /\ c \in completes
    /\ completes' = completes \ {c}
    /\ LET u == c.q.upload
           r == c.q.room
       IN /\ fileHandleCache' = closeUploadHandle(u)
          /\ openHandles' = handlesAfterClose(u)
          /\ clearMetaCache(u)
          /\ lastActivity' = Drop(lastActivity, u)
          /\ IF u \in DOMAIN uploadDirs
             THEN /\ files' = Drop(files, u) @@ (u :> uploadDirs[u].part)
                  /\ uploadDirs' = Drop(uploadDirs, u)
                  /\ activeUploadsByRoom' =
                        IF r \in DOMAIN activeUploadsByRoom
                           /\ activeUploadsByRoom[r] = u
                        THEN Drop(activeUploadsByRoom, r) ELSE activeUploadsByRoom
                  /\ rooms' = updateState(rooms, r, processingState, now)
                  /\ jobs' = jobs \cup {[roomId |-> r, path |-> u]}
                  /\ last' = Asked([c.q EXCEPT !.op = "complete-end"], "200",
                        IF r \in DOMAIN rooms
                        THEN <<Frame("processing-progress", 0, FALSE)>> ELSE <<>>)
             ELSE /\ last' = Asked([c.q EXCEPT !.op = "complete-end"], "thrown", <<>>)
                  /\ UNCHANGED <<rooms, files, uploadDirs, activeUploadsByRoom, jobs>>
    /\ UNCHANGED <<activeWriteCounts, writes, opens, closing, uploadCount>>
    /\ UNCHANGED sessionFrame

(* RoomManager.setVideoPath *)
setVideoPath(rs, r, path, t) ==
    updateState(rs, r, [videoPath |-> path, currentTime |-> 0, isPlaying |-> FALSE], t)

(* MediaProcessor.notifyProgress, called while the job runs *)
NotifyProgress(job) ==
    /\ job \in jobs
    /\ rooms' = updateState(rooms, job.roomId,
                    [isProcessing |-> TRUE, processingMessage |-> "working"], now)
    /\ last' = Answer("processing", "",
          IF job.roomId \in DOMAIN rooms
          THEN <<Frame("processing-progress", 0, FALSE)>> ELSE <<>>)
    /\ UNCHANGED <<files, uploadVars>>
    /\ UNCHANGED sessionFrame

(* the background task of complete ends.  tool tells whether ffprobe and    *)
(* ffmpeg worked: processMedia catches their errors and returns the path it *)
(* was given.  ok tells whether the try block of the task ran to its end.   *)
ProcessDone(job, tool, ok) ==
    /\ job \in jobs
    /\ jobs' = jobs \ {job}
    /\ IF ok
       THEN /\ rooms' = updateState(setVideoPath(rooms, job.roomId, job.path, now),
                            job.roomId,
                            [isProcessing |-> FALSE, processingMessage |-> ""], now)
            /\ last' = [op |-> "process", res |-> "ok", tool |-> tool,
                        room |-> job.roomId, path |-> job.path,
                        sent |-> IF job.roomId \in DOMAIN rooms
                                 THEN <<Frame("video-ready", 0, FALSE)>> ELSE <<>>]
       ELSE /\ rooms' = updateState(rooms, job.roomId,
                  [isProcessing |-> FALSE, processingMessage |-> "error"], now)
            /\ last' = [op |-> "process", res |-> "failed", tool |-> tool,
                        room |-> job.roomId, path |-> job.path, sent |-> <<>>]
    /\ UNCHANGED <<files, activeUploadsByRoom, metaCache, receivedChunkSets,
                   uploadDirs, fileHandleCache, openHandles, activeWriteCounts,
                   writes, opens, closing, completes, lastActivity, uploadCount>>
    /\ UNCHANGED sessionFrame

----------------------------------------------------------------------------
(* cleanupRoomUploads: the active upload of the room and every directory    *)
(* whose name starts with the room id                                       *)
roomUploads(r) ==
    (IF r \in DOMAIN activeUploadsByRoom THEN {activeUploadsByRoom[r]} ELSE {})
    \cup {u \in DOMAIN uploadDirs : uploadDirs[u].meta.roomId = r}

cleanupRoomUploads(r) ==
    LET gone == roomUploads(r)
        keep(f) == [x \in DOMAIN f \ gone |-> f[x]]
    IN /\ metaCache' = keep(metaCache)
       /\ receivedChunkSets' = keep(receivedChunkSets)
       /\ uploadDirs' = keep(uploadDirs)
       /\ lastActivity' = keep(lastActivity)
       /\ activeUploadsByRoom' = Drop(activeUploadsByRoom, r)
       /\ fileHandleCache' =
            [u \in {x \in DOMAIN fileHandleCache :
                       x \in gone => x \in DOMAIN activeWriteCounts
                                      /\ activeWriteCounts[x] > 0} |-> fileHandleCache[u]]
       /\ openHandles' =
            LET after(u) == IF u \in gone THEN openCount(handlesAfterClose(u), u)
                            ELSE openHandles[u]
            IN [u \in {x \in DOMAIN openHandles : after(x) > 0} |-> after(u)]

deleteRoom(r) ==
    /\ rooms' = roomsAfterDelete(r)
    /\ activeDiscordSession' = activeAfterDelete(r)
    /\ sockets' = socketsAfterDelete(r)
    /\ files' = filesAfterDelete(r)

(* POST /api/discord-end-session/:roomId *)
DiscordEndSession(r, token) ==
    /\ IF r \notin DOMAIN rooms \/ ~rooms[r].discord
       THEN /\ last' = Answer("discord-end-session", "404", <<>>)
            /\ rooms' = rooms
       ELSE IF token = NoToken
       THEN /\ last' = Answer("discord-end-session", "400", <<>>)
            /\ rooms' = rooms
       ELSE IF ~isHostByToken(rooms, r, token)
       THEN /\ last' = Answer("discord-end-session", "403", <<>>)
            /\ rooms' = rooms
       ELSE /\ rooms' = setSessionStatus(rooms, r, "ended")
            /\ last' = Answer("discord-end-session", "200",
                  <<Frame("session-ending", 0, FALSE), Frame("session-status", 0, FALSE)>>)
    /\ UNCHANGED <<activeDiscordSession, cleanupTimers, sockets, idCount,
                   files, now, roomLastSync, deleting, uploadVars>>

(* POST /api/discord-finalize-session/:roomId *)
DiscordFinalizeSession(r, token) ==
    /\ LET q == [op |-> "discord-finalize-session", room |-> r, token |-> token]
           refuse(code) ==
              /\ last' = q @@ [res |-> code, sent |-> <<>>, body |-> <<>>]
              /\ UNCHANGED <<rooms, activeDiscordSession, sockets, files, uploadVars>>
       IN IF r \notin DOMAIN rooms \/ ~rooms[r].discord THEN refuse("404")
          ELSE IF token = NoToken THEN refuse("400")
          ELSE IF ~isHostByToken(rooms, r, token) THEN refuse("403")
          ELSE /\ cleanupRoomUploads(r)
               /\ deleteRoom(r)
               /\ last' = q @@ [res |-> "200",
                                sent |-> <<Frame("session-ended", 0, FALSE)>>,
                                body |-> getRatings(rooms, r)]
               /\ UNCHANGED <<activeWriteCounts, writes, opens, closing, completes,
                              uploadCount, jobs>>
    /\ UNCHANGED <<cleanupTimers, idCount, now, roomLastSync, deleting>>

(* POST /api/end-session/:roomId *)
EndSession(r, hostId) ==
    /\ IF hostId = NoId
       THEN /\ last' = Answer("end-session", "400", <<>>)
            /\ UNCHANGED <<rooms, activeDiscordSession, sockets, files, uploadVars>>
       ELSE IF r \notin DOMAIN rooms
       THEN /\ last' = Answer("end-session", "404", <<>>)
            /\ UNCHANGED <<rooms, activeDiscordSession, sockets, files, uploadVars>>
       ELSE IF rooms[r].state.hostId # hostId
       THEN /\ last' = Answer("end-session", "403", <<>>)
            /\ UNCHANGED <<rooms, activeDiscordSession, sockets, files, uploadVars>>
       ELSE /\ cleanupRoomUploads(r)
            /\ deleteRoom(r)
            /\ last' = Answer("end-session", "200", <<Frame("session-ended", 0, FALSE)>>)
            /\ UNCHANGED <<activeWriteCounts, writes, opens, closing, completes,
                           uploadCount, jobs>>
    /\ UNCHANGED <<cleanupTimers, idCount, now, roomLastSync, deleting>>

(* the timer of RoomManager.scheduleRoomCleanup fires *)
CleanupTimerFire(r) ==
    /\ r \in DOMAIN cleanupTimers
    /\ now >= cleanupTimers[r]
    /\ cleanupTimers' = Drop(cleanupTimers, r)
    /\ IF r \in DOMAIN rooms /\ rooms[r].clients = {}
       THEN /\ deleteRoom(r)
            /\ last' = Answer("cleanup-timer", "deleted", <<>>)
       ELSE /\ last' = Answer("cleanup-timer", "kept", <<>>)
            /\ UNCHANGED <<rooms, activeDiscordSession, sockets, files>>
    /\ UNCHANGED <<idCount, now, roomLastSync, deleting, uploadVars>>

(* time passes; a timer that is due fires before the clock moves on *)
AdvanceTime ==
    /\ now + TimeStep <= MaxTime
    /\ \A r \in DOMAIN cleanupTimers : cleanupTimers[r] > now
    /\ now' = now + TimeStep
    /\ last' = Answer("tick", "", <<>>)
    /\ UNCHANGED <<rooms, activeDiscordSession, cleanupTimers, sockets, idCount,
                   files, roomLastSync, deleting, uploadVars>>

(* deleteRoom awaits rm of the room's video file when the file lies in the  *)
(* uploads directory, before it removes the room from the registry          *)
awaitsRemoval(r) ==
    LET vp == rooms[r].state.videoPath
    IN vp # NoPath /\ vp \in DOMAIN files /\ underUploads(vp)

(* RoomManager.cleanupInactiveRooms, run by its interval timer              *)
(* ROOM_SWEEP_INTERVAL after its last run: deleteRoom is called, and not    *)
(* awaited, for every room without clients whose state was not updated for  *)
(* more than ROOM_TIMEOUT_MS; a deleteRoom that has no file to remove       *)
(* removes the room at once, the others are left at `await rm`              *)
CleanupInactiveRooms ==
    LET t == now + ROOM_SWEEP_INTERVAL
        idle == {r \in DOMAIN rooms :
                    /\ rooms[r].clients = {}
                    /\ t - rooms[r].state.lastUpdate > ROOM_TIMEOUT_MS}
        slow == {r \in idle : awaitsRemoval(r)}
        fast == idle \ slow
    IN /\ t <= TimeStep + MaxRoomSweeps * ROOM_SWEEP_INTERVAL
       /\ \A r \in DOMAIN cleanupTimers : cleanupTimers[r] > now
       /\ now' = t
       /\ rooms' = [r \in DOMAIN rooms \ fast |-> rooms[r]]
       /\ activeDiscordSession' =
             IF activeDiscordSession \in fast THEN NoId ELSE activeDiscordSession
       /\ deleting' = deleting \cup slow
       /\ last' = Answer("cleanup-rooms", "", <<>>) @@ [removed |-> fast, begun |-> slow]
       /\ UNCHANGED <<cleanupTimers, sockets, idCount, files, roomLastSync, uploadVars>>

(* rm of the video file ends and deleteRoom goes on: the marker of the      *)
(* active session is cleared and the room leaves the registry, with the     *)
(* clients that joined it since deleteRoom cleared its client set           *)
DeleteRoomEnd(r) ==
    /\ r \in deleting
    /\ deleting' = deleting \ {r}
    /\ IF r \in DOMAIN rooms
       THEN /\ rooms' = roomsAfterDelete(r)
            /\ activeDiscordSession' = activeAfterDelete(r)
            /\ files' = filesAfterDelete(r)
            /\ last' = Answer("delete-room", "deleted", <<>>)
                          @@ [room |-> r, clients |-> rooms[r].clients]
       ELSE /\ last' = Answer("delete-room", "gone", <<>>) @@ [room |-> r, clients |-> {}]
            /\ UNCHANGED <<rooms, activeDiscordSession, files>>
    /\ UNCHANGED <<cleanupTimers, sockets, idCount, now, roomLastSync, uploadVars>>

(* time passes in steps of DebounceStep, and a timer fires when it is due: *)
(* the clock stops at the earliest deadline on its way                      *)
Elapse ==
    LET due == {cleanupTimers[r] : r \in DOMAIN cleanupTimers}
        next == IF \E d \in due : d < now + DebounceStep
                THEN CHOOSE d \in due : \A e \in due : d <= e
                ELSE now + DebounceStep
    IN /\ now + DebounceStep <= MaxTime
       /\ \A d \in due : d > now
       /\ now' = next
       /\ last' = Answer("tick", "", <<>>)
       /\ UNCHANGED <<rooms, activeDiscordSession, cleanupTimers, sockets, idCount,
                      files, roomLastSync, deleting, uploadVars>>

----------------------------------------------------------------------------
(* The global sync tick of server.ts; the playhead is kept in milliseconds  *)

getSyncInterval(rs, r) ==
    IF r \notin DOMAIN rs THEN SYNC_INTERVAL_PAUSED
    ELSE IF rs[r].state.isPlaying THEN SYNC_INTERVAL_PLAYING ELSE SYNC_INTERVAL_PAUSED

getCurrentTime(rs, r, t) ==
    IF r \notin DOMAIN rs THEN 0
    ELSE IF rs[r].state.isPlaying
         THEN rs[r].state.currentTime * 1000 + (t - rs[r].state.lastUpdate)
         ELSE rs[r].state.currentTime * 1000

(* roomLastSync.get(room.id) || 0 *)
lastSyncOf(r) == IF r \in DOMAIN roomLastSync THEN roomLastSync[r] ELSE 0

(* the callback reaches roomLastSync.set for room r at serverTime t *)
tickStamps(r, t) ==
    /\ rooms[r].clients # {}
    /\ ~(t - lastSyncOf(r) < getSyncInterval(rooms, r))
    /\ rooms[r].state.playbackStarted

(* the callback broadcasts to room r at serverTime t *)
tickSends(r, t) ==
    /\ tickStamps(r, t)
    /\ rooms[r].state.isPlaying \/ t - lastSyncOf(r) > KEEP_ALIVE_MS

tickFrame(r, t) ==
    [type |-> "sync", a |-> getCurrentTime(rooms, r, t), b |-> rooms[r].state.isPlaying,
     serverTime |-> t, room |-> r]

(* forEachRoom: the frames of one run of the callback, in the rooms' order *)
RECURSIVE tickFrames(_, _)
tickFrames(rs, t) ==
    IF rs = {} THEN <<>>
    ELSE LET r == CHOOSE x \in rs : \A y \in rs : x <= y
         IN (IF tickSends(r, t) THEN <<tickFrame(r, t)>> ELSE <<>>)
            \o tickFrames(rs \ {r}, t)

(* the interval timer fires dt after its last run, at the first tick one    *)
(* GLOBAL_TICK_MS after the start                                           *)
SyncTick(dt) ==
    LET t == now + dt
        stamped == {r \in DOMAIN rooms : tickStamps(r, t)}
    IN /\ t <= TimeStep + MaxTicks * (GLOBAL_TICK_MS + 1)
       /\ now' = t
       /\ roomLastSync' = [r \in DOMAIN roomLastSync \cup stamped |->
                              IF r \in stamped THEN t ELSE roomLastSync[r]]
       /\ last' = Answer("sync-tick", "", tickFrames(DOMAIN rooms, t))
       /\ UNCHANGED <<rooms, activeDiscordSession, cleanupTimers, sockets, idCount,
                      files, deleting, uploadVars>>

----------------------------------------------------------------------------
CommandTypes == {"play", "pause", "seek"}
UploadIds == 0..MaxUploads
ChunkCounts == 0..MaxChunks

(* What clients send.  A request names a room of the registry or no room;   *)
(* it carries a token of the room, no token or a token of no room, and a    *)
(* host id that is empty, wrong or, for a room made by /api/create-room     *)
(* (the only route that discloses it), the room's hostId.                   *)
RoomTargets == DOMAIN rooms \cup {NoId}
TokensFor(r) ==
    (IF r \in DOMAIN rooms THEN DOMAIN rooms[r].tokenMap ELSE {}) \cup {NoToken, BadToken}
HostIdsFor(r) ==
    (IF r \in DOMAIN rooms /\ ~rooms[r].discord THEN {rooms[r].state.hostId} ELSE {})
    \cup {NoId, BadId}
CredentialsFor(r) ==
    {<<t, NoId>> : t \in TokensFor(r)} \cup {<<NoToken, h>> : h \in HostIdsFor(r)}

MemberTokens(r) == IF r \in DOMAIN rooms THEN DOMAIN rooms[r].tokenMap ELSE {}
AbsentMembers(r) == {t \in MemberTokens(r) : ~rooms[r].tokenMap[t].connected}
(* the users who hold a token and the next user who asks for one *)
KnownUsers(r) == {d \in DiscordIds : d <= Cardinality(MemberTokens(r)) + 1}
HostCredentials(r) ==
    IF r \notin DOMAIN rooms THEN {}
    ELSE IF rooms[r].discord
         THEN {<<t, NoId>> : t \in {x \in MemberTokens(r) : rooms[r].tokenMap[x].isHost}}
         ELSE {<<NoToken, rooms[r].state.hostId>>}
(* the credentials of the host, of the other members and of strangers *)
SomeCredentials(r) ==
    HostCredentials(r) \cup {<<t, NoId>> : t \in MemberTokens(r)}
    \cup {<<NoToken, NoId>>}
    \cup (IF r \in DOMAIN rooms /\ rooms[r].discord THEN {} ELSE {<<NoToken, BadId>>})
IssuedUploads == 1..uploadCount

(* the files that a client uploads: filename -> bytes *)
ClientFiles == << <<1, 2, 1>>, <<2, 2>> >>
Filenames == DOMAIN ClientFiles
ChunkSizes == {1, 2}
ChunkIndices == (-1 .. MaxChunks) \cup {NaN}
ToolResults == {"done", "failed"}

(* upload.js: the number of chunks of a file and the bytes of chunk i *)
totalChunksOf(f, chunkSize) == (Len(ClientFiles[f]) + chunkSize - 1) \div chunkSize
chunkOf(f, i, chunkSize) ==
    IF i < 0 \/ i * chunkSize >= Len(ClientFiles[f]) THEN <<>>
    ELSE SubSeq(ClientFiles[f], i * chunkSize + 1,
                Min((i + 1) * chunkSize, Len(ClientFiles[f])))

(* a chunk whose body is being written is finished before the next request *)
Settled == writes = {}
Writing == \E w \in writes : ChunkWritten(w, TRUE)

(* a timer that is due fires before any other handler runs *)
TimerDue == \E r \in DOMAIN cleanupTimers : now >= cleanupTimers[r]
Idle == ~TimerDue
Timers == \E r \in DOMAIN cleanupTimers : CleanupTimerFire(r)

----------------------------------------------------------------------------
(* The registry: sessions and simple rooms are created and deleted while    *)
(* clients come and go.                                                     *)
RegistryNext ==
    \/ Idle /\ \E valid \in BOOLEAN : CreateDiscordSession(FirstHost, valid)
    \/ Idle /\ \E vp \in {NoPath, LibraryPath, OutsidePath, MissingPath} : CreateRoom(vp)
    \/ Idle /\ \E r \in RoomTargets : \E c \in HostCredentials(r) \cup {<<BadToken, NoId>>} :
          Connect(r, c[2], c[1], newSocket(c[1]))
    \/ Idle /\ \E s \in DOMAIN sockets : Disconnect(s)
    \/ Idle /\ \E r \in RoomTargets : \E t \in TokensFor(r) : DiscordFinalizeSession(r, t)
    \/ Idle /\ \E r \in RoomTargets : \E h \in HostIdsFor(r) : EndSession(r, h)
    \/ Idle /\ AdvanceTime
    \/ Timers

SpecRegistry == Init /\ [][RegistryNext]_vars

(* Host authority in a session: members join and leave, the host sends      *)
(* heartbeats or falls silent, uploads start and stop, the session ends,    *)
(* and the host check runs.                                                 *)
HostNext ==
    \/ Idle /\ CreateDiscordSession(FirstHost, TRUE)
    \/ Idle /\ \E r \in DOMAIN rooms : \E d \in KnownUsers(r) : SessionToken(r, d)
    \/ Idle /\ \E r \in DOMAIN rooms : \E t \in AbsentMembers(r) :
          Connect(r, NoId, t, newSocket(t))
    \/ Idle /\ \E s \in DOMAIN sockets : Disconnect(s)
    \/ Idle /\ \E s \in DOMAIN sockets : HostHeartbeat(s)
    \/ Idle /\ \E r \in DOMAIN rooms : \E c \in HostCredentials(r) :
          UploadInit(r, c[1], c[2], 1, 1, 1, 10)
    \/ Idle /\ \E r \in DOMAIN rooms : \E c \in HostCredentials(r) : \E u \in DOMAIN uploadDirs :
          UploadAbort(r, c[1], c[2], u)
    \/ Idle /\ \E r \in DOMAIN rooms : \E c \in HostCredentials(r) : DiscordEndSession(r, c[1])
    \/ Idle /\ \E r \in DOMAIN rooms : HostCheck(r)
    \/ Idle /\ AdvanceTime
    \/ Timers

SpecHost == Init /\ [][HostNext]_vars

(* A takeover: members join a session, time passes, the host check runs and *)
(* members send play with seq 1.                                            *)
TakeoverNext ==
    \/ CreateDiscordSession(FirstHost, TRUE)
    \/ \E r \in DOMAIN rooms : \E d \in KnownUsers(r) : SessionToken(r, d)
    \/ \E r \in DOMAIN rooms : \E t \in AbsentMembers(r) :
          Connect(r, NoId, t, newSocket(t))
    \/ \E s \in DOMAIN sockets : HostCommand(s, "play", 7, 1)
    \/ \E r \in DOMAIN rooms : HostCheck(r)
    \/ AdvanceTime

SpecTakeover == Init /\ [][TakeoverNext]_vars

(* Playback commands: the host and the other clients of a session or of a   *)
(* simple room send play, pause, seek and heartbeats with any payload.      *)
SyncNext ==
    \/ CreateDiscordSession(FirstHost, TRUE)
    \/ CreateRoom(NoPath)
    \/ \E r \in DOMAIN rooms : SessionToken(r, 2)
    \/ \E r \in DOMAIN rooms :
          \E c \in {<<t, NoId>> : t \in AbsentMembers(r)} \cup
                   (IF rooms[r].clients = {} THEN HostCredentials(r) ELSE {})
                   \cup {<<NoToken, BadId>>} : Connect(r, c[2], c[1], newSocket(c[1]))
    \/ \E s \in DOMAIN sockets, ty \in CommandTypes, ct \in CurrentTimes,
          seq \in SeqVals \cup {NoSeq} : HostCommand(s, ty, ct, seq)
    \/ \E s \in DOMAIN sockets : HostHeartbeat(s)
    \/ \E r \in DOMAIN rooms : \E c \in HostCredentials(r) : DiscordEndSession(r, c[1])
    \/ AdvanceTime

SpecSync == Init /\ [][SyncNext]_vars

(* Uploads: the upload routes are called with and without the host's        *)
(* credentials, before and after the session ends or the host changes; the  *)
(* job that complete starts is left running.                                *)
UploadNext ==
    \/ Settled /\ CreateDiscordSession(FirstHost, TRUE)
    \/ Settled /\ CreateRoom(NoPath)
    \/ Settled /\ \E r \in DOMAIN rooms : SessionToken(r, 2)
    \/ Settled /\ \E r \in DOMAIN rooms : \E t \in AbsentMembers(r) :
          Connect(r, NoId, t, newSocket(t))
    \/ Settled /\ \E r \in DOMAIN rooms : \E c \in HostCredentials(r) : DiscordEndSession(r, c[1])
    \/ Settled /\ \E r \in DOMAIN rooms : HostCheck(r)
    \/ Settled /\ AdvanceTime
    \/ Settled /\ \E r \in DOMAIN rooms : \E c \in SomeCredentials(r) :
          UploadInit(r, c[1], c[2], 1, 1, 1, 10)
    \/ Settled /\ \E r \in DOMAIN rooms : \E c \in SomeCredentials(r) :
          \E u \in IssuedUploads : UploadChunk(r, c[1], c[2], u, 0, <<>>)
    \/ Settled /\ \E r \in DOMAIN rooms : \E c \in SomeCredentials(r) :
          \E u \in IssuedUploads : UploadStatus(r, c[1], c[2], u)
    \/ Settled /\ \E r \in DOMAIN rooms : \E c \in SomeCredentials(r) :
          \E u \in IssuedUploads : UploadProgress(r, c[1], c[2], u)
    \/ Settled /\ \E r \in DOMAIN rooms : \E c \in SomeCredentials(r) :
          \E u \in IssuedUploads : UploadAbort(r, c[1], c[2], u)
    \/ Settled /\ \E r \in DOMAIN rooms : \E c \in SomeCredentials(r) :
          \E u \in IssuedUploads : UploadComplete(r, c[1], c[2], u, 1)
    \/ Writing

SpecUpload == Init /\ [][UploadNext]_vars

(* Admission: a video is uploaded and published, and members connect and    *)
(* leave.                                                                   *)
AdmissionNext ==
    \/ Settled /\ CreateDiscordSession(FirstHost, TRUE)
    \/ Settled /\ \E r \in DOMAIN rooms : \E d \in KnownUsers(r) : SessionToken(r, d)
    \/ Settled /\ \E r \in DOMAIN rooms : \E t \in MemberTokens(r) \cup {NoToken} :
          Connect(r, NoId, t, newSocket(t))
    \/ Settled /\ \E s \in DOMAIN sockets : Disconnect(s)
    \/ Settled /\ \E r \in DOMAIN rooms : \E c \in HostCredentials(r) :
          UploadInit(r, c[1], c[2], 1, 1, 1, LibrarySize)
    \/ Settled /\ \E r \in DOMAIN rooms : \E c \in HostCredentials(r) : \E u \in DOMAIN uploadDirs :
          UploadChunk(r, c[1], c[2], u, 0, <<>>)
    \/ Settled /\ \E r \in DOMAIN rooms : \E c \in HostCredentials(r) : \E u \in DOMAIN uploadDirs :
          UploadComplete(r, c[1], c[2], u, 1)
    \/ Settled /\ \E job \in jobs : ProcessDone(job, "done", TRUE)
    \/ Writing

SpecAdmission == Init /\ [][AdmissionNext]_vars

(* upload.js: the chunk size that cuts a file into at most MaxChunks chunks *)
chunkSizeOf(f) == (Len(ClientFiles[f]) + MaxChunks - 1) \div MaxChunks

(* what init is asked: the first file of the client cut into chunks, and    *)
(* requests with a zero or a negative totalChunks or chunkSize              *)
InitRequests ==
    {<<1, totalChunksOf(1, chunkSizeOf(1)), chunkSizeOf(1)>>}
    \cup {<<1, 0, 1>>, <<1, 1, 0>>, <<1, -1, 1>>, <<1, 1, -1>>}

(* the bytes that the client sends as chunk i of upload u *)
bodyOf(u, i) ==
    IF u \in DOMAIN uploadDirs /\ uploadDirs[u].meta.chunkSize > 0
    THEN chunkOf(uploadDirs[u].meta.filename, i, uploadDirs[u].meta.chunkSize)
    ELSE <<>>

(* the uploads that requests name: those that have a directory, and the    *)
(* first upload of the behaviour, also after it was purged or published     *)
UploadTargets == DOMAIN uploadDirs \cup (IssuedUploads \cap {1})

(* Transfers: the host of a session uploads files chunk by chunk, asks for  *)
(* status and progress, aborts and completes, with well-formed and          *)
(* ill-formed requests.                                                     *)
TransferNext ==
    \/ Settled /\ CreateDiscordSession(FirstHost, TRUE)
    \/ Settled /\ \E r \in DOMAIN rooms : \E c \in HostCredentials(r) :
          \E i \in InitRequests :
             UploadInit(r, c[1], c[2], i[1], i[2], i[3], Len(ClientFiles[i[1]]))
    \/ Settled /\ \E r \in DOMAIN rooms : \E c \in HostCredentials(r) :
          \E u \in UploadTargets, i \in ChunkIndices :
             UploadChunk(r, c[1], c[2], u, i, bodyOf(u, i))
    \/ Writing
    \/ Settled /\ \E r \in DOMAIN rooms : \E c \in HostCredentials(r) :
          \E u \in UploadTargets : UploadStatus(r, c[1], c[2], u)
    \/ Settled /\ \E r \in DOMAIN rooms : \E c \in HostCredentials(r) :
          \E u \in UploadTargets \cup {0} : UploadProgress(r, c[1], c[2], u)
    \/ Settled /\ \E r \in DOMAIN rooms : \E c \in HostCredentials(r) :
          \E u \in UploadTargets : UploadAbort(r, c[1], c[2], u)
    \/ Settled /\ \E r \in DOMAIN rooms : \E c \in HostCredentials(r) :
          \E u \in UploadTargets, n \in 1..MaxChunks : UploadComplete(r, c[1], c[2], u, n)
    \/ Settled /\ \E job \in jobs : ProcessDone(job, "done", TRUE)

SpecTransfer == Init /\ [][TransferNext]_vars

(* Resumed uploads: the client of upload.js sends the chunks of a file in   *)
(* any order and any number of times, asks for the status in between and    *)
(* completes with the totalChunks it gave to init.                          *)
ResumeNext ==
    \/ Settled /\ CreateDiscordSession(FirstHost, TRUE)
    \/ Settled /\ \E r \in DOMAIN rooms : \E c \in HostCredentials(r) :
          \E f \in Filenames :
             UploadInit(r, c[1], c[2], f, totalChunksOf(f, chunkSizeOf(f)),
                        chunkSizeOf(f), Len(ClientFiles[f]))
    \/ Settled /\ \E r \in DOMAIN rooms : \E c \in HostCredentials(r) :
          \E u \in DOMAIN uploadDirs :
             \E i \in 0 .. (uploadDirs[u].meta.totalChunks - 1) :
                UploadChunk(r, c[1], c[2], u, i, bodyOf(u, i))
    \/ Writing
    \/ Settled /\ \E r \in DOMAIN rooms : \E c \in HostCredentials(r) :
          \E u \in IssuedUploads : UploadStatus(r, c[1], c[2], u)
    \/ Settled /\ \E r \in DOMAIN rooms : \E c \in HostCredentials(r) :
          \E u \in DOMAIN uploadDirs :
             UploadComplete(r, c[1], c[2], u, uploadDirs[u].meta.totalChunks)
    \/ Settled /\ \E job \in jobs : ProcessDone(job, "done", TRUE)

SpecResume == Init /\ [][ResumeNext]_vars

(* Aborted uploads: the host aborts an upload at any moment, also while the *)
(* body of a chunk request is being written.                                *)
AbortNext ==
    \/ Settled /\ CreateDiscordSession(FirstHost, TRUE)
    \/ Settled /\ \E r \in DOMAIN rooms : \E c \in HostCredentials(r) :
          \E f \in Filenames :
             UploadInit(r, c[1], c[2], f, totalChunksOf(f, chunkSizeOf(f)),
                        chunkSizeOf(f), Len(ClientFiles[f]))
    \/ Settled /\ \E r \in DOMAIN rooms : \E c \in HostCredentials(r) :
          \E u \in DOMAIN uploadDirs :
             \E i \in 0 .. (uploadDirs[u].meta.totalChunks - 1) :
                UploadChunk(r, c[1], c[2], u, i, bodyOf(u, i))
    \/ \E w \in writes : \E ok \in BOOLEAN : ChunkWritten(w, ok)
    \/ \E r \in DOMAIN rooms : \E c \in HostCredentials(r) :
          \E u \in IssuedUploads : UploadAbort(r, c[1], c[2], u)
    \/ Settled /\ \E r \in DOMAIN rooms : \E c \in HostCredentials(r) :
          \E u \in IssuedUploads : UploadStatus(r, c[1], c[2], u)

SpecAbort == Init /\ [][AbortNext]_vars

(* the background task of complete ends, whether the media tools worked or  *)
(* failed                                                                   *)
Finish == \E job \in jobs, tool \in ToolResults : ProcessDone(job, tool, TRUE)

(* Post-processing: files are uploaded and completed, the job of complete   *)
(* reports its progress and ends, and the session may end meanwhile.        *)
ProcessingNext ==
    \/ Settled /\ CreateDiscordSession(FirstHost, TRUE)
    \/ Settled /\ \E r \in DOMAIN rooms : \E c \in HostCredentials(r) : DiscordEndSession(r, c[1])
    \/ Settled /\ \E r \in DOMAIN rooms : \E c \in HostCredentials(r) :
          \E f \in Filenames :
             UploadInit(r, c[1], c[2], f, totalChunksOf(f, chunkSizeOf(f)),
                        chunkSizeOf(f), Len(ClientFiles[f]))
    \/ Settled /\ \E r \in DOMAIN rooms : \E c \in HostCredentials(r) :
          \E u \in DOMAIN uploadDirs :
             \E i \in 0 .. (uploadDirs[u].meta.totalChunks - 1) :
                UploadChunk(r, c[1], c[2], u, i, bodyOf(u, i))
    \/ Writing
    \/ Settled /\ \E r \in DOMAIN rooms : \E c \in HostCredentials(r) :
          \E u \in DOMAIN uploadDirs :
             UploadComplete(r, c[1], c[2], u, uploadDirs[u].meta.totalChunks)
    \/ \E job \in jobs : NotifyProgress(job)
    \/ Finish

SpecProcessing == Init /\ [][ProcessingNext]_vars

(* the media tools terminate: a job that runs ends *)
SpecProcessingFair == SpecProcessing /\ WF_vars(Finish)

(* the socket that the next upgrade without a token creates in a crowd *)
crowdSocket ==
    CHOOSE x \in 1..(MaxCrowd + 1) \ DOMAIN sockets :
       \A y \in 1..(MaxCrowd + 1) \ DOMAIN sockets : x <= y

(* A crowd: a simple room is created without a video, with a large or with  *)
(* a small one, and clients without a token connect and leave.              *)
CrowdNext ==
    \/ \E vp \in {NoPath, LibraryPath, SmallPath} : CreateRoom(vp)
    \/ \E r \in DOMAIN rooms : ConnectWithin(MaxCrowd, r, NoId, NoToken, crowdSocket)
    \/ \E s \in DOMAIN sockets : Disconnect(s)

SpecCrowd == Init /\ [][CrowdNext]_vars

(* the users of a large guild who hold a token of the room, and the next    *)
(* user who asks for one                                                    *)
CrowdUsers(r) ==
    {d \in 1..(MaxCrowd + 1) :
        r \in DOMAIN rooms => d <= Cardinality(DOMAIN rooms[r].tokenMap) + 1}

(* Invitations: the users of a guild ask for a token of the session one     *)
(* after the other, and again; the host and the first guest connect and     *)
(* leave, and the host ends the session.                                    *)
InviteNext ==
    \/ \E valid \in BOOLEAN : CreateDiscordSession(FirstHost, valid)
    \/ \E r \in RoomTargets : \E d \in CrowdUsers(r) : SessionTokenWithin(MaxCrowd, r, d)
    \/ \E r \in DOMAIN rooms : \E t \in AbsentMembers(r) \cap {1, 2} :
          Connect(r, NoId, t, newSocket(t))
    \/ \E s \in DOMAIN sockets : Disconnect(s)
    \/ \E r \in DOMAIN rooms : \E c \in HostCredentials(r) : DiscordEndSession(r, c[1])

SpecInvite == Init /\ [][InviteNext]_vars

(* the ratings that clients send: two numbers in range and one below and    *)
(* one above it                                                             *)
RatingValues == {0, 3, 8, 11}

(* the guests of a rated session *)
Guests == {2, 3}

(* Ratings: the host and two guests of a session connect and leave, and     *)
(* whoever has a token or none rates the film, any number of times.         *)
RatingNext ==
    \/ CreateDiscordSession(FirstHost, TRUE)
    \/ \E r \in DOMAIN rooms : \E d \in KnownUsers(r) \cap Guests : SessionToken(r, d)
    \/ \E r \in DOMAIN rooms : \E t \in AbsentMembers(r) :
          Connect(r, NoId, t, newSocket(t))
    \/ \E s \in DOMAIN sockets : Disconnect(s)
    \/ \E r \in RoomTargets : \E t \in TokensFor(r), v \in RatingValues :
          SessionRating(r, t, v)

SpecRating == Init /\ [][RatingNext]_vars

(* The debounce: clients of a simple room and of a session come and go      *)
(* while the clock moves in steps shorter than the cleanup delay.           *)
DebounceNext ==
    \/ Idle /\ CreateDiscordSession(FirstHost, TRUE)
    \/ Idle /\ CreateRoom(NoPath)
    \/ Idle /\ \E r \in RoomTargets : \E c \in HostCredentials(r) \cup {<<BadToken, NoId>>} :
          Connect(r, c[2], c[1], newSocket(c[1]))
    \/ Idle /\ \E s \in DOMAIN sockets : Disconnect(s)
    \/ Idle /\ Elapse
    \/ Timers

SpecDebounce == Init /\ [][DebounceNext]_vars

(* The periodic sync: the host of a simple room plays, pauses and seeks     *)
(* while the global tick runs, on time or one millisecond late.             *)
TickLengths == {GLOBAL_TICK_MS, GLOBAL_TICK_MS + 1}

TickNext ==
    \/ CreateRoom(NoPath)
    \/ \E r \in DOMAIN rooms : \E c \in HostCredentials(r) :
          rooms[r].clients = {} /\ Connect(r, c[2], c[1], newSocket(c[1]))
    \/ \E s \in DOMAIN sockets, ty \in CommandTypes, seq \in 1..MaxSeq :
          HostCommand(s, ty, 7, seq)
    \/ \E dt \in TickLengths : SyncTick(dt)

SpecTick == Init /\ [][TickNext]_vars

(* The playhead of a room that plays while its host uploads the next video: *)
(* host commands, the clock and the upload routes that update the room's    *)
(* state.                                                                   *)
PlayheadNext ==
    \/ CreateRoom(NoPath)
    \/ \E r \in DOMAIN rooms : \E c \in HostCredentials(r) :
          rooms[r].clients = {} /\ Connect(r, c[2], c[1], newSocket(c[1]))
    \/ \E s \in DOMAIN sockets, ty \in CommandTypes, seq \in 1..MaxSeq :
          HostCommand(s, ty, 7, seq)
    \/ AdvanceTime
    \/ \E r \in DOMAIN rooms : \E c \in HostCredentials(r) :
          UploadInit(r, c[1], c[2], 1, totalChunksOf(1, chunkSizeOf(1)),
                     chunkSizeOf(1), Len(ClientFiles[1]))
    \/ Settled /\ \E r \in DOMAIN rooms : \E c \in HostCredentials(r) :
          \E u \in DOMAIN uploadDirs :
             \E i \in 0 .. (uploadDirs[u].meta.totalChunks - 1) :
                UploadChunk(r, c[1], c[2], u, i, bodyOf(u, i))
    \/ Writing
    \/ \E r \in DOMAIN rooms : \E c \in HostCredentials(r) :
          \E u \in DOMAIN uploadDirs : UploadStatus(r, c[1], c[2], u)

SpecPlayhead == Init /\ [][PlayheadNext]_vars

(* Uploads that grow old: a room whose host initialises an upload, sends    *)
(* chunks and keep-alives, and the runs of cleanupUploads.                  *)
GcNext ==
    \/ CreateRoom(NoPath)
    \/ Settled /\ \E r \in DOMAIN rooms : \E c \in HostCredentials(r) :
          UploadInit(r, c[1], c[2], 1, totalChunksOf(1, chunkSizeOf(1)),
                     chunkSizeOf(1), Len(ClientFiles[1]))
    \/ Settled /\ \E r \in DOMAIN rooms : \E c \in HostCredentials(r) :
          \E u \in DOMAIN uploadDirs :
             \E i \in 0 .. (uploadDirs[u].meta.totalChunks - 1) :
                UploadChunk(r, c[1], c[2], u, i, bodyOf(u, i))
    \/ Writing
    \/ \E r \in DOMAIN rooms : \E c \in HostCredentials(r) :
          \E u \in IssuedUploads : UploadProgress(r, c[1], c[2], u)
    \/ Settled /\ CleanupUploads

SpecGc == Init /\ [][GcNext]_vars

(* Rooms that nobody joins in time: rooms with a video of the library, the  *)
(* clients that come and go, the empty-room timer and the runs of           *)
(* cleanupInactiveRooms.                                                    *)
IdleNext ==
    \/ CreateRoom(LibraryPath)
    \/ \E r \in DOMAIN rooms : \E c \in HostCredentials(r) :
          Connect(r, c[2], c[1], newSocket(c[1]))
    \/ \E s \in DOMAIN sockets : Disconnect(s)
    \/ Timers
    \/ Idle /\ CleanupInactiveRooms
    \/ \E r \in deleting : DeleteRoomEnd(r)

SpecIdle == Init /\ [][IdleNext]_vars

(* The file handle of an upload: chunk requests arrive while no handle is   *)
(* cached, while one is cached and while the sweeper closes an idle one.    *)
HandlesNext ==
    \/ CreateRoom(NoPath)
    \/ \E r \in DOMAIN rooms : \E c \in HostCredentials(r) :
          UploadInit(r, c[1], c[2], 1, totalChunksOf(1, chunkSizeOf(1)),
                     chunkSizeOf(1), Len(ClientFiles[1]))
    \/ \E r \in DOMAIN rooms : \E c \in HostCredentials(r) :
          \E u \in DOMAIN uploadDirs :
             \E i \in 0 .. (uploadDirs[u].meta.totalChunks - 1) :
                \/ ChunkBegin(r, c[1], c[2], u, i, bodyOf(u, i))
                \/ /\ u \in DOMAIN fileHandleCache
                   /\ UploadChunk(r, c[1], c[2], u, i, bodyOf(u, i))
    \/ \E o \in opens : HandleOpened(o)
    \/ \E w \in writes : \E ok \in BOOLEAN : ChunkWritten(w, ok)
    \/ \E u \in DOMAIN fileHandleCache : SweepBegin(u)
    \/ \E u \in closing : HandleClosed(u)
    \/ AdvanceTime

SpecHandles == Init /\ [][HandlesNext]_vars

(* Complete requests that overlap: uploads of the first file, their chunks  *)
(* and complete requests whose validation and renaming are separate steps.  *)
CompletesNext ==
    \/ CreateRoom(NoPath)
    \/ \E r \in DOMAIN rooms : \E c \in HostCredentials(r) :
          UploadInit(r, c[1], c[2], 1, totalChunksOf(1, chunkSizeOf(1)),
                     chunkSizeOf(1), Len(ClientFiles[1]))
    \/ Settled /\ \E r \in DOMAIN rooms : \E c \in HostCredentials(r) :
          \E u \in DOMAIN uploadDirs :
             \E i \in 0 .. (uploadDirs[u].meta.totalChunks - 1) :
                UploadChunk(r, c[1], c[2], u, i, bodyOf(u, i))
    \/ Writing
    \/ \E r \in DOMAIN rooms : \E c \in HostCredentials(r) :
          \E u \in IssuedUploads : \E slot \in 1 .. MaxCompletes :
             CompleteBegin(r, c[1], c[2], u,
                           totalChunksOf(1, chunkSizeOf(1)), slot)
    \/ \E c \in completes : CompleteEnd(c)
    \/ \E job \in jobs : ProcessDone(job, TRUE, TRUE)

SpecCompletes == Init /\ [][CompletesNext]_vars

(* The end of a session: the host and a guest rate the film, the host       *)
(* starts an upload, and whoever has a token, none or a wrong one asks to   *)
(* finalize; then the next session is created.                              *)
FinalizeNext ==
    \/ \E valid \in BOOLEAN : CreateDiscordSession(FirstHost, valid)
    \/ \E r \in DOMAIN rooms : SessionToken(r, 2)
    \/ \E r \in DOMAIN rooms : \E t \in AbsentMembers(r) :
          Connect(r, NoId, t, newSocket(t))
    \/ \E r \in DOMAIN rooms : \E t \in MemberTokens(r), v \in {3, 8} :
          SessionRating(r, t, v)
    \/ \E r \in DOMAIN rooms : \E c \in HostCredentials(r) :
          UploadInit(r, c[1], c[2], 1, 1, 1, 10)
    \/ \E r \in RoomTargets : \E t \in TokensFor(r) : DiscordFinalizeSession(r, t)

SpecFinalize == Init /\ [][FinalizeNext]_vars

(* every handler with every input *)
Next ==
    \/ RegistryNext \/ HostNext \/ TakeoverNext \/ SyncNext \/ UploadNext \/ AdmissionNext
    \/ TransferNext \/ ResumeNext \/ AbortNext \/ ProcessingNext
    \/ CrowdNext \/ InviteNext \/ RatingNext \/ FinalizeNext \/ DebounceNext
    \/ TickNext \/ HandlesNext \/ CompletesNext \/ PlayheadNext \/ GcNext \/ IdleNext
    \/ \E r \in RoomTargets, d \in DiscordIds : SessionToken(r, d)
    \/ \E r \in RoomTargets : \E c \in CredentialsFor(r) :
          Connect(r, c[2], c[1], newSocket(c[1]))
    \/ \E r \in RoomTargets : \E t \in TokensFor(r) : DiscordEndSession(r, t)
    \/ \E r \in RoomTargets : \E c \in CredentialsFor(r) :
          \E f \in Filenames, n \in ChunkCounts \cup {-1}, cs \in ChunkSizes \cup {0, -1},
             sz \in FileSizes : UploadInit(r, c[1], c[2], f, n, cs, sz)
    \/ \E r \in RoomTargets : \E c \in CredentialsFor(r) :
          \E u \in UploadIds, i \in ChunkIndices, f \in Filenames, cs \in ChunkSizes :
             UploadChunk(r, c[1], c[2], u, i, chunkOf(f, i, cs))
    \/ \E r \in RoomTargets : \E c \in CredentialsFor(r) :
          \E u \in UploadIds : UploadStatus(r, c[1], c[2], u)
    \/ \E r \in RoomTargets : \E c \in CredentialsFor(r) :
          \E u \in UploadIds : UploadProgress(r, c[1], c[2], u)
    \/ \E r \in RoomTargets : \E c \in CredentialsFor(r) :
          \E u \in UploadIds : UploadAbort(r, c[1], c[2], u)
    \/ \E r \in RoomTargets : \E c \in CredentialsFor(r) :
          \E u \in UploadIds, n \in ChunkCounts : UploadComplete(r, c[1], c[2], u, n)
    \/ \E job \in jobs : NotifyProgress(job)
    \/ \E job \in jobs, tool \in ToolResults, ok \in BOOLEAN : ProcessDone(job, tool, ok)
    \/ \E w \in writes, ok \in BOOLEAN : ChunkWritten(w, ok)
    \/ Timers

Spec == Init /\ [][Next]_vars

----------------------------------------------------------------------------
(* Properties *)

hostsOf(r) == {t \in DOMAIN rooms[r].tokenMap : rooms[r].tokenMap[t].isHost}

(* C1: in every reachable state a Discord-bound room has exactly one member *)
(* of tokenMap with isHost = TRUE, and a room whose tokenMap is empty has   *)
(* no host member.                                                          *)
C1_ExactlyOneHost ==
    \A r \in DOMAIN rooms :
        /\ rooms[r].discord => Cardinality(hostsOf(r)) = 1
        /\ DOMAIN rooms[r].tokenMap = {} => hostsOf(r) = {}

(* a host check has just moved the host flag inside a room of three members *)
C1_Witness ==
    /\ last.op = "host-check" /\ last.res = "transferred"
    /\ \E r \in DOMAIN rooms :
          /\ rooms[r].discord
          /\ Cardinality(DOMAIN rooms[r].tokenMap) >= 3
          /\ ~rooms[r].tokenMap[1].isHost

(* the fields of a room that playback commands touch *)
playback(rm) ==
    <<rm.state.currentTime, rm.state.isPlaying, rm.state.lastUpdate,
      rm.state.lastCommandSeq, rm.state.playbackStarted, rm.status,
      rm.state.hostLastHeartbeat>>

(* the step is a play, pause or seek that the room took from its host *)
fromHost == last'.op \in CommandTypes /\ last'.res # "not-host"

(* C2: a play, pause or seek of the current host, whatever its payload, is  *)
(* applied only if its seq is strictly greater than lastCommandSeq and is   *)
(* otherwise a no-op without a sync frame; an applied command leaves its    *)
(* seq in lastCommandSeq, which never decreases.                            *)
C2_SeqGating ==
    [][\A r \in DOMAIN rooms :
         fromHost =>
           /\ ~(last'.seq # NoSeq /\ last'.seq > rooms[r].state.lastCommandSeq)
                 => /\ playback(rooms'[r]) = playback(rooms[r])
                    /\ last'.sent = <<>>
           /\ last'.res = "applied" => rooms'[r].state.lastCommandSeq = last'.seq
           /\ rooms'[r].state.lastCommandSeq >= rooms[r].state.lastCommandSeq]_vars

(* the socket is not the one of the current host *)
notCurrentHost(s) ==
    LET rm == rooms[sockets[s].roomId]
        t == sockets[s].token
    IN IF t # NoToken
       THEN ~(t \in DOMAIN rm.tokenMap /\ rm.tokenMap[t].isHost)
       ELSE sockets[s].clientId # rm.state.hostId

(* C3: a play, pause, seek or host-heartbeat from a socket that is not the  *)
(* current host's changes nothing in the room and broadcasts nothing.       *)
C3_NonHostIgnored ==
    [][\A s \in DOMAIN sockets :
         (/\ last'.op \in CommandTypes \cup {"host-heartbeat"}
          /\ last'.from = s
          /\ notCurrentHost(s))
         => rooms' = rooms /\ last'.sent = <<>>]_vars

(* a member without the host flag has sent a command with a fresh seq to a  *)
(* session whose clock has moved since the last heartbeat                   *)
C3_Witness ==
    /\ last.op \in CommandTypes
    /\ last.from \in DOMAIN sockets
    /\ last.seq # NoSeq
    /\ LET rm == rooms[sockets[last.from].roomId]
       IN /\ rm.discord
          /\ sockets[last.from].token \in DOMAIN rm.tokenMap
          /\ ~rm.tokenMap[sockets[last.from].token].isHost
          /\ last.seq > rm.state.lastCommandSeq
          /\ now > rm.state.hostLastHeartbeat

statusRank(st) == IF st = "waiting" THEN 0 ELSE IF st = "playing" THEN 1 ELSE 2

(* C4: the status of a room never regresses: waiting, then playing, then    *)
(* ended, and an ended room stays ended whatever arrives.                   *)
C4_StatusNeverRegresses ==
    [][\A r \in DOMAIN rooms \cap DOMAIN rooms' :
         statusRank(rooms'[r].status) >= statusRank(rooms[r].status)]_vars

(* C5: the registry holds at most one room, and a create issued while a     *)
(* room exists or a Discord session is active is answered 409 and changes   *)
(* neither the registry nor the active-session marker.                      *)
C5_SingletonSession ==
    [][/\ Cardinality(DOMAIN rooms') <= 1
       /\ (/\ last'.op \in {"discord-session", "create-room"}
           /\ (DOMAIN rooms # {} \/ activeDiscordSession # NoId))
          => /\ last'.res = "409"
             /\ rooms' = rooms
             /\ activeDiscordSession' = activeDiscordSession]_vars

(* a simple room was asked for while the second session of the run was open *)
C5_Witness ==
    /\ last.op = "create-room" /\ last.res = "409"
    /\ \E r \in DOMAIN rooms : rooms[r].discord /\ r > 1 /\ activeDiscordSession = r

(* the members a host check may promote *)
candidates(rm) ==
    {t \in DOMAIN rm.tokenMap : rm.tokenMap[t].connected /\ ~rm.tokenMap[t].isHost}

(* C6: the host check leaves the host alone while now - hostLastHeartbeat   *)
(* is at most 60 s, while an upload is in progress, while the room has no   *)
(* clients and when the room has ended.                                     *)
C6_HostCheckKeepsHost ==
    [][\A r \in DOMAIN rooms :
         (/\ last'.op = "host-check"
          /\ \/ now - rooms[r].state.hostLastHeartbeat <= HOST_INACTIVE_TIMEOUT
             \/ rooms[r].state.isUploading
             \/ rooms[r].clients = {}
             \/ rooms[r].status = "ended")
         => /\ rooms'[r].tokenMap = rooms[r].tokenMap
            /\ rooms'[r].hostDiscordId = rooms[r].hostDiscordId]_vars

(* a host check has run during an upload, more than 60 s after the last     *)
(* heartbeat, with another member connected                                 *)
C6_Witness ==
    /\ last.op = "host-check" /\ last.res = "kept"
    /\ \E r \in DOMAIN rooms :
          /\ rooms[r].state.isUploading
          /\ now - rooms[r].state.hostLastHeartbeat > HOST_INACTIVE_TIMEOUT
          /\ rooms[r].status # "ended"
          /\ candidates(rooms[r]) # {}

(* C7: when the host has been silent for more than 60 s, no upload is in    *)
(* progress, the room has clients and has not ended, and a member other     *)
(* than the host is connected, the host check makes the connected non-host  *)
(* member with the smallest connectedAt the only host, sets                 *)
(* hostLastHeartbeat to now and broadcasts host-changed with its id.        *)
C7_HostCheckTransfers ==
    [][\A r \in DOMAIN rooms :
         LET tm == rooms[r].tokenMap
         IN (/\ last'.op = "host-check"
             /\ rooms[r].discord
             /\ now - rooms[r].state.hostLastHeartbeat > HOST_INACTIVE_TIMEOUT
             /\ ~rooms[r].state.isUploading
             /\ rooms[r].clients # {}
             /\ rooms[r].status # "ended"
             /\ candidates(rooms[r]) # {})
            => \E t \in candidates(rooms[r]) :
                  /\ \A u \in candidates(rooms[r]) : tm[t].connectedAt <= tm[u].connectedAt
                  /\ \A k \in DOMAIN tm : rooms'[r].tokenMap[k].isHost = (k = t)
                  /\ rooms'[r].state.hostLastHeartbeat = now
                  /\ last'.sent = <<Frame("host-changed", tm[t].discordId, FALSE)>>]_vars

(* the host check has promoted a member that connected before a member who  *)
(* got its token earlier                                                    *)
C7_Witness ==
    /\ last.op = "host-check" /\ last.res = "transferred"
    /\ \E r \in DOMAIN rooms : \E t, u \in DOMAIN rooms[r].tokenMap :
          /\ rooms[r].tokenMap[t].isHost
          /\ u < t
          /\ u \in candidates(rooms[r])
          /\ rooms[r].tokenMap[u].connectedAt > rooms[r].tokenMap[t].connectedAt

sentBy(token) == last'.from \in DOMAIN sockets /\ sockets[last'.from].token = token

(* C8: with host H (token 1) and connected viewers A (token 2) and B (token *)
(* 3), A connected first: once H has been silent for more than 60 s with no *)
(* upload in progress the host check makes A the host; the play with seq 1  *)
(* that A sends next is applied (the room plays, a sync frame goes out);    *)
(* a play with seq 1 that H sends afterwards changes nothing.               *)
C8_TakeoverScenario ==
    [][\A r \in DOMAIN rooms :
         LET tm == rooms[r].tokenMap
         IN DOMAIN tm = {1, 2, 3} =>
            /\ (/\ last'.op = "host-check"
                /\ tm[1].isHost /\ tm[2].connected /\ tm[3].connected
                /\ tm[2].connectedAt < tm[3].connectedAt
                /\ now - rooms[r].state.hostLastHeartbeat > HOST_INACTIVE_TIMEOUT
                /\ ~rooms[r].state.isUploading)
               => /\ rooms'[r].tokenMap[2].isHost
                  /\ ~rooms'[r].tokenMap[1].isHost
                  /\ ~rooms'[r].tokenMap[3].isHost
            /\ (/\ last.op = "host-check" /\ last.res = "transferred"
                /\ tm[2].isHost
                /\ last'.op = "play" /\ last'.seq = 1 /\ sentBy(2))
               => /\ rooms'[r].state.isPlaying
                  /\ \E i \in DOMAIN last'.sent : last'.sent[i].type = "sync"
            /\ (/\ tm[2].isHost /\ ~tm[1].isHost
                /\ last'.op = "play" /\ last'.seq = 1 /\ sentBy(1))
               => /\ rooms'[r] = rooms[r]
                  /\ last'.sent = <<>>]_vars

(* C9: a member is marked connected exactly when a socket among the room's  *)
(* clients carries its token, also after a connection that was refused at   *)
(* admission.                                                               *)
C9_ConnectedIffSocket ==
    \A r \in DOMAIN rooms : \A t \in DOMAIN rooms[r].tokenMap :
        rooms[r].tokenMap[t].connected
          <=> \E s \in rooms[r].clients : sockets[s].token = t

UploadOps ==
    {"upload-init", "upload-chunk", "upload-complete", "upload-abort",
     "upload-status", "upload-progress"}

(* the request carries the credentials of the room's current host *)
byCurrentHost(r) ==
    IF rooms[r].discord
    THEN last'.token \in hostsOf(r)
    ELSE last'.hostId # NoId /\ last'.hostId = rooms[r].state.hostId

(* C10: an upload request (init, chunk, complete, abort, status, progress)  *)
(* to an ended room, or without the credentials of the room's current host, *)
(* is answered 403 and changes no room, upload registry or file; the token  *)
(* of a former host counts as any other member's.                           *)
C10_UploadsNeedCurrentHost ==
    [][\A r \in DOMAIN rooms :
         (/\ last'.op \in UploadOps
          /\ last'.room = r
          /\ (rooms[r].status = "ended" \/ ~byCurrentHost(r)))
         => /\ last'.res = "403"
            /\ rooms' = rooms
            /\ files' = files
            /\ UNCHANGED uploadVars]_vars

(* the former host of a session was refused while an upload of the new host *)
(* was under way                                                            *)
C10_Witness ==
    /\ last.op \in UploadOps /\ last.res = "403"
    /\ last.room \in DOMAIN rooms
    /\ LET rm == rooms[last.room]
       IN /\ rm.discord
          /\ last.token = 1
          /\ ~rm.tokenMap[1].isHost
          /\ rm.state.isUploading
          /\ rm.status # "ended"

----------------------------------------------------------------------------
(* the chunk indices of an upload of totalChunks chunks *)
chunkRange(meta) == 0 .. (meta.totalChunks - 1)

(* the last request was made with the credentials of the host of a room     *)
(* that has not ended                                                       *)
authorized ==
    /\ last'.room \in DOMAIN rooms
    /\ ensureUploadAuthorized(rooms, last'.room, last'.token, last'.hostId) = ""

(* C11: the received set of every upload lies within [0, totalChunks) and   *)
(* has at most totalChunks elements, and a chunk request whose chunkIndex   *)
(* is not in that range is answered 400 and changes no set, no part file    *)
(* and no room.                                                             *)
C11_ReceivedInRange ==
    /\ [](\A u \in DOMAIN receivedChunkSets \cap DOMAIN metaCache :
            /\ receivedChunkSets[u] \subseteq chunkRange(metaCache[u])
            /\ Cardinality(receivedChunkSets[u]) <= Max(metaCache[u].totalChunks, 0))
    /\ [][(/\ last'.op = "upload-chunk"
           /\ authorized
           /\ last'.upload \in DOMAIN uploadDirs
           /\ loadedMeta(last'.upload).roomId = last'.room
           /\ last'.arg \notin chunkRange(loadedMeta(last'.upload)))
          => /\ last'.res = "400"
             /\ rooms' = rooms
             /\ UNCHANGED uploadVars]_vars

(* the number of chunks received for an upload *)
receivedCount(u) ==
    IF u \in DOMAIN receivedChunkSets THEN Cardinality(receivedChunkSets[u]) ELSE 0

(* C12: a complete request for an upload of which fewer chunks were         *)
(* received than the totalChunks fixed at init is answered 400 with the     *)
(* received and the expected count, publishes no file and changes neither   *)
(* the upload nor the room.                                                 *)
C12_CompleteNeedsAllChunks ==
    [][(/\ last'.op = "upload-complete"
        /\ authorized
        /\ last'.upload \in DOMAIN metaCache
        /\ metaCache[last'.upload].roomId = last'.room
        /\ receivedCount(last'.upload) < metaCache[last'.upload].totalChunks)
       => /\ last'.res = "400"
          /\ last'.body = <<receivedCount(last'.upload), last'.arg>>
          /\ rooms' = rooms
          /\ files' = files
          /\ UNCHANGED uploadVars]_vars

(* the handlers that report the progress of an upload under way *)
ProgressOps == {"chunk-written", "upload-status", "upload-progress"}

(* the upload-progress values among the frames of the last handler *)
progressSent ==
    {last'.sent[i].a : i \in {j \in DOMAIN last'.sent : last'.sent[j].type = "upload-progress"}}

(* C13: the progress that chunk, progress and status handling store and     *)
(* broadcast for an upload not yet completed is at most 99, also when every *)
(* chunk was received; a successful complete stores 100.                    *)
C13_ProgressBelow100UntilComplete ==
    [][/\ (/\ last'.op \in ProgressOps
           /\ last'.res = "200"
           /\ progressSent # {})
          => /\ \A x \in progressSent : x <= 99
             /\ rooms'[last'.room].state.uploadProgress <= 99
       /\ (last'.op = "upload-complete" /\ last'.res = "200")
          => rooms'[last'.room].state.uploadProgress = 100]_vars

(* C14: when complete succeeds the room is no longer uploading, its upload  *)
(* progress is 100 and it is processing; the upload is not the room's       *)
(* active upload and has no cached metadata or received set; a              *)
(* processing-progress frame is broadcast; and the answer is given while    *)
(* the post-processing job is still running.                                *)
C14_CompleteStartsProcessing ==
    [][(last'.op = "upload-complete" /\ last'.res = "200")
       => LET r == last'.room
              u == last'.upload
          IN /\ rooms'[r].state.isUploading = FALSE
             /\ rooms'[r].state.uploadProgress = 100
             /\ rooms'[r].state.isProcessing = TRUE
             /\ r \in DOMAIN activeUploadsByRoom' => activeUploadsByRoom'[r] # u
             /\ u \notin DOMAIN metaCache'
             /\ u \notin DOMAIN receivedChunkSets'
             /\ \E i \in DOMAIN last'.sent : last'.sent[i].type = "processing-progress"
             /\ [roomId |-> r, path |-> u] \in jobs' \ jobs]_vars

(* complete has just answered for an upload whose chunks were all received  *)
(* and the job it started is still running                                  *)
C14_Witness ==
    /\ last.op = "upload-complete" /\ last.res = "200"
    /\ [roomId |-> last.room, path |-> last.upload] \in jobs
    /\ last.upload \in DOMAIN files
    /\ rooms[last.room].state.isProcessing

(* C15: a successful init removes the directory, the cached metadata and    *)
(* the received set of the upload that was the room's active upload, makes  *)
(* the new upload the room's active upload with an empty received set, and  *)
(* sets isUploading with uploadProgress 0; chunk, status and complete       *)
(* requests for an upload that has neither directory nor metadata fail.     *)
C15_InitPurgesPrevious ==
    [][/\ (last'.op = "upload-init" /\ last'.res = "200")
          => LET r == last'.room
                 u == last'.upload
             IN /\ r \in DOMAIN activeUploadsByRoom
                      => /\ activeUploadsByRoom[r] \notin DOMAIN uploadDirs'
                         /\ activeUploadsByRoom[r] \notin DOMAIN metaCache'
                         /\ activeUploadsByRoom[r] \notin DOMAIN receivedChunkSets'
                /\ u \notin DOMAIN uploadDirs
                /\ activeUploadsByRoom'[r] = u
                /\ receivedChunkSets'[u] = {}
                /\ u \in DOMAIN uploadDirs' /\ u \in DOMAIN metaCache'
                /\ rooms'[r].state.isUploading = TRUE
                /\ rooms'[r].state.uploadProgress = 0
       /\ (/\ last'.op \in {"upload-chunk", "upload-status", "upload-complete"}
           /\ last'.upload \notin DOMAIN uploadDirs
           /\ last'.upload \notin DOMAIN metaCache)
          => /\ last'.res \in {"400", "403", "404"}
             /\ UNCHANGED uploadVars]_vars

(* init has just purged an upload of which a chunk had been written: its    *)
(* handle is still cached, and it was neither aborted nor completed         *)
C15_Witness ==
    /\ last.op = "upload-init" /\ last.res = "200"
    /\ activeUploadsByRoom[last.room] = last.upload
    /\ \E p \in DOMAIN fileHandleCache :
          /\ p < last.upload
          /\ p \notin DOMAIN uploadDirs
          /\ p \notin DOMAIN files

(* C16: an init request of the host whose totalChunks or chunkSize is zero  *)
(* or negative, to a room that is not processing, is answered 400, creates  *)
(* no upload, purges none and leaves the room as it was.                    *)
C16_InitRejectsNonPositive ==
    [][(/\ last'.op = "upload-init"
        /\ authorized
        /\ ~rooms[last'.room].state.isProcessing
        /\ (last'.arg <= 0 \/ last'.arg2 <= 0))
       => /\ last'.res = "400"
          /\ rooms' = rooms
          /\ files' = files
          /\ UNCHANGED uploadVars]_vars

payload(f) == [p \in 0 .. (Len(ClientFiles[f]) - 1) |-> ClientFiles[f][p + 1]]

(* the chunks of an upload whose every byte is in the part file *)
writtenIndices(u) ==
    LET meta == uploadDirs[u].meta
    IN {i \in chunkRange(meta) :
          \A p \in (i * meta.chunkSize) ..
                    (Min((i + 1) * meta.chunkSize, meta.totalSize) - 1) :
             p \in DOMAIN uploadDirs[u].part.data}

(* C18: in an upload by chunks sent in any order, with status requests in   *)
(* between, status answers with exactly the indices of the chunks written   *)
(* so far, in ascending order; complete succeeds as soon as every chunk was *)
(* written; and the published file has the bytes and the size of the        *)
(* client's file, whatever the order and the interruptions were.            *)
C18_ResumedUploadRoundTrip ==
    [][/\ (last'.op = "upload-status" /\ last'.res = "200")
          => last'.body = sortedChunks(writtenIndices(last'.upload))
       /\ (/\ last'.op = "upload-complete"
           /\ last'.upload \in DOMAIN uploadDirs
           /\ writtenIndices(last'.upload) = chunkRange(uploadDirs[last'.upload].meta))
          => last'.res = "200"
       /\ (last'.op = "upload-complete" /\ last'.res = "200")
          => LET f == uploadDirs[last'.upload].meta.filename
             IN /\ files'[last'.upload].data = payload(f)
                /\ files'[last'.upload].size = Len(ClientFiles[f])]_vars

(* complete has just published a file that was sent in more than one chunk, *)
(* the second upload of the behaviour                                       *)
C18_Witness ==
    /\ last.op = "upload-complete" /\ last.res = "200"
    /\ last.upload > 1
    /\ files[last.upload].data = payload(1)
    /\ Len(ClientFiles[1]) > chunkSizeOf(1)

(* C19: when an abort request of the host has been answered, the upload has *)
(* no cached metadata, no received set and no cached file handle, its       *)
(* directory is gone, it is not the room's active upload and the room's     *)
(* uploadProgress is 0.                                                     *)
C19_AbortPurgesUpload ==
    [][(last'.op = "upload-abort" /\ last'.res = "200")
       => LET r == last'.room
              u == last'.upload
          IN /\ u \notin DOMAIN metaCache'
             /\ u \notin DOMAIN receivedChunkSets'
             /\ u \notin DOMAIN fileHandleCache'
             /\ u \notin DOMAIN uploadDirs'
             /\ r \in DOMAIN activeUploadsByRoom' => activeUploadsByRoom'[r] # u
             /\ rooms'[r].state.uploadProgress = 0]_vars

(* the jobs that complete can start *)
AllJobs == {[roomId |-> r, path |-> u] : r \in 1..MaxRooms, u \in 1..MaxUploads}

(* the last step was the end of this job and left its room not processing *)
ended(job) ==
    /\ last.op = "process" /\ last.room = job.roomId /\ last.path = job.path
    /\ job.roomId \in DOMAIN rooms => ~rooms[job.roomId].state.isProcessing

(* the frames of the last handler that announce the video *)
videoReadySent == {i \in DOMAIN last'.sent : last'.sent[i].type = "video-ready"}

(* C20: the job that a successful complete starts ends, and leaves its room *)
(* not processing.  When the media tools worked the room has the processed  *)
(* file as videoPath when video-ready is broadcast; when they failed the    *)
(* room's processingMessage records the error, its videoPath is as before   *)
(* and no video-ready is broadcast.  The answer of complete was given       *)
(* before and is not changed by either.                                     *)
C20_ProcessingEnds ==
    /\ \A job \in AllJobs : (job \in jobs) ~> ended(job)
    /\ [][(last'.op = "process" /\ last'.room \in DOMAIN rooms)
          => LET r == last'.room
             IN /\ r \in DOMAIN rooms'
                /\ ~rooms'[r].state.isProcessing
                /\ last'.tool = "done"
                      => /\ rooms'[r].state.videoPath = last'.path
                         /\ videoReadySent # {}
                /\ last'.tool = "failed"
                      => /\ rooms'[r].state.processingMessage = "error"
                         /\ rooms'[r].state.videoPath = rooms[r].state.videoPath
                         /\ videoReadySent = {}]_vars

(* the bandwidth limit in the unit of estimateBitrate *)
bandwidthLimit == MAX_BANDWIDTH_MBPS * DURATION_SECONDS

(* C21: a socket becomes a client of a room only when the room has fewer    *)
(* than 10 clients and (clients + 1) x estimatedBitrate is at most 150      *)
(* Mbps, so that right after the k-th client was admitted k <= 10 and       *)
(* k x estimatedBitrate <= 150; a socket that is denied is closed with      *)
(* 4003 and becomes a client of no room; clients are open sockets.          *)
C21_AdmissionCaps ==
    [][/\ \A r \in DOMAIN rooms \cap DOMAIN rooms' :
            rooms'[r].clients \ rooms[r].clients # {}
            => LET n == Cardinality(rooms[r].clients)
                   k == Cardinality(rooms'[r].clients)
               IN /\ k = n + 1
                  /\ n < MAX_CLIENTS_PER_ROOM
                  /\ (n + 1) * estimateBitrate(rooms, r, files) <= bandwidthLimit
                  /\ k <= MAX_CLIENTS_PER_ROOM
                  /\ k * estimateBitrate(rooms', r, files') <= bandwidthLimit
       /\ (last'.op = "connect" /\ last'.res = "4003")
            => /\ sockets' = sockets
               /\ \A r \in DOMAIN rooms : rooms'[r].clients = rooms[r].clients
       /\ \A r \in DOMAIN rooms' : rooms'[r].clients \subseteq DOMAIN sockets']_vars

(* the eleventh client of a room was denied although its video is small     *)
(* enough for the bandwidth of eleven                                       *)
C21_Witness ==
    /\ last.op = "connect" /\ last.res = "4003"
    /\ \E r \in DOMAIN rooms :
          /\ Cardinality(rooms[r].clients) = MAX_CLIENTS_PER_ROOM
          /\ (MAX_CLIENTS_PER_ROOM + 1) * estimateBitrate(rooms, r, files) <= bandwidthLimit

(* C22: the tokenMap of a room never has more than MAX_CLIENTS_PER_ROOM     *)
(* entries, however many users ask for a token.                             *)
C22_TokenMapBounded ==
    \A r \in DOMAIN rooms :
       Cardinality(DOMAIN rooms[r].tokenMap) <= MAX_CLIENTS_PER_ROOM

(* the rating that a list holds for a member, 0 when it holds none *)
ratingOf(seq, discordId) ==
    IF ratedAt(seq, discordId) = {} THEN 0
    ELSE seq[CHOOSE i \in ratedAt(seq, discordId) : TRUE].rating

(* C23: the ratings list of a room never holds two records of one member;   *)
(* an accepted rating leaves the member with exactly the rating just sent,  *)
(* whether or not the member had rated before, and every other member with  *)
(* the rating they had; and the average that is reported is the mean of     *)
(* these ratings rounded to one decimal.                                    *)
C23_RatingIsUpsert ==
    [][/\ \A r \in DOMAIN rooms' : \A d \in DiscordIds :
            Cardinality(ratedAt(rooms'[r].ratings, d)) <= 1
       /\ (last'.op = "session-rating" /\ last'.res = "200")
            => LET r == last'.room
                   me == rooms[r].tokenMap[last'.token].discordId
                   before == rooms[r].ratings
                   after == rooms'[r].ratings
                   n == Len(after)
               IN /\ ratingOf(after, me) = last'.arg
                  /\ \A d \in DiscordIds \ {me} : ratingOf(after, d) = ratingOf(before, d)
                  /\ n = Len(before) + (IF ratedAt(before, me) = {} THEN 1 ELSE 0)
                  /\ last'.body.ratings = after
                  /\ 2 * n * last'.body.average <= 20 * ratingSum(after) + n
                  /\ 20 * ratingSum(after) + n < 2 * n * (last'.body.average + 1)]_vars

(* a member who had rated 3 has just rated 8 while another member's rating  *)
(* of 3 stands: the average is 5.5                                          *)
C23_Witness ==
    /\ last.op = "session-rating" /\ last.res = "200" /\ last.arg = 8
    /\ Len(rooms[last.room].ratings) = 2
    /\ ratingSum(rooms[last.room].ratings) = 11
    /\ last.body.average = 55
    /\ rooms[last.room].ratings[1].discordId =
          rooms[last.room].tokenMap[last.token].discordId

(* the frames of a type among those that the last handler broadcast *)
sentOf(type) == {i \in DOMAIN last'.sent : last'.sent[i].type = type}

(* the members of a room that are marked connected and have no rating *)
unrated(rm) ==
    {t \in DOMAIN rm.tokenMap :
        rm.tokenMap[t].connected /\ ratedAt(rm.ratings, rm.tokenMap[t].discordId) = {}}

(* C24: an accepted rating is followed by one rating-received frame that    *)
(* carries the list of ratings, and by an all-ratings-received frame with   *)
(* the list and the average exactly when no member that is connected at     *)
(* that moment is without a rating; a rating that is refused broadcasts     *)
(* nothing.                                                                 *)
C24_AllRatingsWhenConnectedRated ==
    [][last'.op = "session-rating"
       => IF last'.res = "200"
          THEN LET rm == rooms'[last'.room]
               IN /\ Cardinality(sentOf("rating-received")) = 1
                  /\ \A i \in sentOf("rating-received") : last'.sent[i].a = rm.ratings
                  /\ sentOf("all-ratings-received") # {} <=> unrated(rm) = {}
                  /\ last'.body.allRated <=> unrated(rm) = {}
                  /\ \A i \in sentOf("all-ratings-received") :
                        /\ last'.sent[i].a = rm.ratings
                        /\ last'.sent[i].b = last'.body.average
                        /\ \A j \in sentOf("rating-received") : j < i
          ELSE last'.sent = <<>>]_vars

(* the last rating completed the ratings of the two members that are        *)
(* connected while a third member, who is not connected, has not rated      *)
C24_Witness ==
    /\ last.op = "session-rating" /\ last.res = "200"
    /\ \E i \in DOMAIN last.sent : last.sent[i].type = "all-ratings-received"
    /\ LET rm == rooms[last.room]
       IN /\ Cardinality({t \in DOMAIN rm.tokenMap : rm.tokenMap[t].connected}) = 2
          /\ Len(rm.ratings) = 2
          /\ \E t \in DOMAIN rm.tokenMap :
                /\ ~rm.tokenMap[t].connected
                /\ ratedAt(rm.ratings, rm.tokenMap[t].discordId) = {}

(* the token is none of the room's host *)
notHostToken(r, token) ==
    token \notin DOMAIN rooms[r].tokenMap \/ ~rooms[r].tokenMap[token].isHost

(* nothing of the registry, the sockets, the files and the uploads changes *)
untouched ==
    /\ rooms' = rooms /\ activeDiscordSession' = activeDiscordSession
    /\ sockets' = sockets /\ files' = files /\ UNCHANGED uploadVars

(* C25 as stated: a finalize request for a session with a missing, an       *)
(* invalid or a non-host token is answered 403 and changes nothing.         *)
C25_NonHostFinalizeIs403 ==
    [][(/\ last'.op = "discord-finalize-session"
        /\ last'.room \in DOMAIN rooms
        /\ rooms[last'.room].discord
        /\ notHostToken(last'.room, last'.token))
       => last'.res = "403" /\ untouched]_vars

(* C25: finalize with the token of the session's host answers with the      *)
(* ratings and the average collected so far, deletes the room and clears    *)
(* the marker of the active session, after which no room is left and a      *)
(* session create is refused only for an invalid payload; finalize with an  *)
(* invalid or a non-host token is answered 403, with a missing token 400,   *)
(* and both leave the room, its ratings and the uploads as they were.       *)
C25_FinalizeHostOnly ==
    [][/\ (last'.op = "discord-finalize-session" /\ last'.room \in DOMAIN rooms
           /\ rooms[last'.room].discord)
          => LET r == last'.room
                 n == Len(rooms[r].ratings)
             IN IF notHostToken(r, last'.token)
                THEN /\ last'.res = (IF last'.token = NoToken THEN "400" ELSE "403")
                     /\ untouched
                ELSE /\ last'.res = "200"
                     /\ last'.body.ratings = rooms[r].ratings
                     /\ IF n = 0 THEN last'.body.average = 0
                        ELSE /\ 2 * n * last'.body.average
                                   <= 20 * ratingSum(rooms[r].ratings) + n
                             /\ 20 * ratingSum(rooms[r].ratings) + n
                                   < 2 * n * (last'.body.average + 1)
                     /\ rooms' = EmptyFn
                     /\ activeDiscordSession' = NoId
       /\ (last'.op = "discord-session" /\ last'.res = "409")
          => (rooms # EmptyFn \/ activeDiscordSession # NoId)]_vars

(* a session was created after the host finalized an earlier one in which   *)
(* an upload had begun, and nothing of that upload is left                  *)
C25_Witness ==
    /\ last.op = "discord-session" /\ last.res = "200"
    /\ idCount > 2
    /\ uploadCount > 0
    /\ uploadDirs = EmptyFn /\ activeUploadsByRoom = EmptyFn

C27_DeletionCascade ==
    [][\A r \in DOMAIN rooms \ DOMAIN rooms' :
         LET vp == rooms[r].state.videoPath
         IN /\ \A s \in DOMAIN sockets' : sockets'[s].roomId # r
            /\ r \notin DOMAIN activeUploadsByRoom'
            /\ \A u \in DOMAIN metaCache' : metaCache'[u].roomId # r
            /\ \A u \in DOMAIN uploadDirs' : uploadDirs'[u].meta.roomId # r
            /\ \A p \in DOMAIN files \ DOMAIN files' : p = vp /\ p # OutsidePath]_vars

(* the periodic sync frames of room r in the last answer *)
tickFramesOf(r) == {i \in 1..Len(last'.sent) : last'.sent[i].room = r}

(* C28: at each run of the global tick, every room with a client whose last *)
(* periodic sync is at least its interval old (2 s playing, 5 s paused) is  *)
(* sent one sync frame with the current playhead, isPlaying and serverTime, *)
(* and its lastSyncSent becomes serverTime; a room whose last periodic sync *)
(* is younger is sent nothing and keeps its lastSyncSent.                   *)
C28_PeriodicSync ==
    [][last'.op = "sync-tick" =>
         \A r \in DOMAIN rooms :
            rooms[r].clients # {} =>
               IF now' - lastSyncOf(r) >=
                     (IF rooms[r].state.isPlaying THEN SYNC_INTERVAL_PLAYING
                                                  ELSE SYNC_INTERVAL_PAUSED)
               THEN /\ \E i \in tickFramesOf(r) :
                          /\ last'.sent[i].type = "sync"
                          /\ last'.sent[i].a = getCurrentTime(rooms, r, now')
                          /\ last'.sent[i].b = rooms[r].state.isPlaying
                          /\ last'.sent[i].serverTime = now'
                    /\ Cardinality(tickFramesOf(r)) = 1
                    /\ r \in DOMAIN roomLastSync' /\ roomLastSync'[r] = now'
               ELSE /\ tickFramesOf(r) = {}
                    /\ r \in DOMAIN roomLastSync' /\ roomLastSync'[r] = lastSyncOf(r)]_vars

(* C29: an upgrade never opens a socket for a room that does not exist, nor *)
(* for a Discord-bound room unless the socket's token maps to a member: the *)
(* former is answered 404, the latter 403.                                  *)
C29_UpgradeNeedsMemberToken ==
    [][/\ \A s \in DOMAIN sockets' \ DOMAIN sockets :
            LET r == sockets'[s].roomId
            IN /\ r \in DOMAIN rooms
               /\ rooms[r].discord => sockets'[s].token \in DOMAIN rooms[r].tokenMap
       /\ (last'.op = "connect" /\ sockets' = sockets) => last'.res \in {"404", "403", "4003"}
       /\ (last'.op = "connect" /\ rooms = EmptyFn) => last'.res = "404"]_vars

(* the tokens of room r that map to discordId *)
tokensOfUser(rm, discordId) ==
    {t \in DOMAIN rm.tokenMap : rm.tokenMap[t].discordId = discordId}

(* C30: a token request answers with a token of the room that maps to the   *)
(* user who asked; when the user held a token before, the host included,    *)
(* the answer is that token and the tokenMap is left as it was; no two      *)
(* tokens of a room map to the same discordId.                              *)
C30_TokenIdempotent ==
    [][/\ (last'.op = "session-token" /\ last'.res = "200") =>
            \A r \in DOMAIN rooms :
               /\ last'.token \in DOMAIN rooms'[r].tokenMap
               /\ LET d == rooms'[r].tokenMap[last'.token].discordId
                  IN IF tokensOfUser(rooms[r], d) # {}
                     THEN /\ tokensOfUser(rooms[r], d) = {last'.token}
                          /\ rooms'[r].tokenMap = rooms[r].tokenMap
                     ELSE DOMAIN rooms'[r].tokenMap =
                             DOMAIN rooms[r].tokenMap \cup {last'.token}
       /\ \A r \in DOMAIN rooms' : \A t, u \in DOMAIN rooms'[r].tokenMap :
             rooms'[r].tokenMap[t].discordId = rooms'[r].tokenMap[u].discordId => t = u]_vars

(* the host asked for a token again and was answered with the token of the *)
(* session's creation while two guests hold tokens                          *)
C30_Witness ==
    /\ last.op = "session-token" /\ last.res = "200"
    /\ \E r \in DOMAIN rooms :
          /\ rooms[r].tokenMap[last.token].isHost
          /\ Cardinality(DOMAIN rooms[r].tokenMap) >= 3

(* C31: at most one file handle of an upload's part file is open at any     *)
(* time, however the chunk requests of the upload interleave.               *)
C31_OneHandlePerUpload ==
    \A u \in DOMAIN openHandles : openHandles[u] <= 1

(* C32: a handle is closed only while no chunk request of its upload is     *)
(* writing, and no chunk request begins to write on a handle that is being  *)
(* closed.                                                                  *)
C32_NoCloseUnderWrite ==
    [][/\ \A u \in DOMAIN openHandles :
            openCount(openHandles', u) < openHandles[u]
               => \A w \in writes : w.q.upload # u
       /\ (last'.op = "upload-chunk" /\ last'.res = "writing")
            => last'.upload \notin closing]_vars

(* C33: a chunk request that finishes writing after its upload's directory  *)
(* was removed (abort, complete, purge by a new init) does not re-create    *)
(* the upload's received-chunk set, does not register the upload as the     *)
(* room's active upload and does not set the room to isUploading.           *)
C33_LateChunkRestoresNothing ==
    [][(/\ last'.op = "chunk-written"
        /\ last'.upload \notin DOMAIN uploadDirs
        /\ last'.room \in DOMAIN rooms)
          => /\ last'.upload \notin DOMAIN receivedChunkSets'
             /\ \A r \in DOMAIN activeUploadsByRoom' :
                   activeUploadsByRoom'[r] # last'.upload
             /\ rooms'[last'.room].state.isUploading
                   => rooms[last'.room].state.isUploading]_vars

(* C34: of the complete requests of one upload at most one has passed the  *)
(* validation and is under way.                                             *)
C34_OneCompletePasses ==
    \A c, d \in completes : c.q.upload = d.q.upload => c = d

(* C35: while a room uploads its active upload, the upload-progress that a  *)
(* chunk, progress or status request broadcasts is not below the progress   *)
(* the room showed before the request, and it is below 100: only complete   *)
(* announces the end of the upload.                                         *)
C35_ProgressMonotonic ==
    [][(/\ last'.op \in {"chunk-written", "upload-status", "upload-progress"}
        /\ last'.room \in DOMAIN rooms
        /\ rooms[last'.room].state.isUploading
        /\ last'.room \in DOMAIN activeUploadsByRoom
        /\ activeUploadsByRoom[last'.room] = last'.upload)
          => \A i \in DOMAIN last'.sent :
                last'.sent[i].type = "upload-progress"
                   => /\ last'.sent[i].a >= rooms[last'.room].state.uploadProgress
                      /\ last'.sent[i].a < 100]_vars

(* C36: while a room plays, a step that applies no host command and        *)
(* publishes no video does not move the playhead back: getCurrentTime after *)
(* the step is at least getCurrentTime before it.                           *)
C36_PlayheadKept ==
    [][\A r \in DOMAIN rooms \cap DOMAIN rooms' :
          (/\ rooms[r].state.isPlaying
           /\ ~(last'.op \in CommandTypes /\ last'.res = "applied")
           /\ last'.op # "process")
             => getCurrentTime(rooms', r, now') >= getCurrentTime(rooms, r, now)]_vars

(* C37: a room whose state says isUploading has an active upload, and the  *)
(* directory and the metadata of that upload exist.                         *)
C37_UploadingHasUpload ==
    \A r \in DOMAIN rooms :
       rooms[r].state.isUploading
          => /\ r \in DOMAIN activeUploadsByRoom
             /\ activeUploadsByRoom[r] \in DOMAIN uploadDirs
             /\ activeUploadsByRoom[r] \in DOMAIN metaCache

(* C38: a host transfer changes the members' isHost flags, the session's   *)
(* hostDiscordId and hostLastHeartbeat and nothing else of the rooms; no    *)
(* step lowers lastCommandSeq, and a numbered command is applied only when  *)
(* its seq exceeds lastCommandSeq, whoever was the host when that was set.  *)
C38_TransferKeepsSeq ==
    [][/\ (last'.op = "host-check" /\ last'.res = "transferred")
            => /\ DOMAIN rooms' = DOMAIN rooms
               /\ \A r \in DOMAIN rooms :
                     [rooms'[r] EXCEPT
                        !.hostDiscordId = rooms[r].hostDiscordId,
                        !.state.hostLastHeartbeat = rooms[r].state.hostLastHeartbeat,
                        !.tokenMap = [k \in DOMAIN @ |->
                           [@[k] EXCEPT !.isHost = rooms[r].tokenMap[k].isHost]]]
                        = rooms[r]
       /\ \A r \in DOMAIN rooms \cap DOMAIN rooms' :
             rooms'[r].state.lastCommandSeq >= rooms[r].state.lastCommandSeq
       /\ (last'.op \in CommandTypes /\ last'.res = "applied" /\ last'.seq # NoSeq)
            => last'.seq > rooms[sockets[last'.from].roomId].state.lastCommandSeq]_vars

(* a transfer has just made another member the host of a room in which a   *)
(* command of the first host had been applied: its seq is still the room's  *)
(* lastCommandSeq                                                           *)
C38_Witness ==
    /\ last.op = "host-check" /\ last.res = "transferred"
    /\ \E r \in DOMAIN rooms :
          /\ rooms[r].hostDiscordId # FirstHost
          /\ rooms[r].state.lastCommandSeq > 0
          /\ rooms[r].state.isPlaying

(* C39: a rating is accepted, and rating-received or all-ratings-received   *)
(* is broadcast, only in a room whose session has ended; while the status   *)
(* is waiting or playing no rating is recorded.                             *)
C39_RatingsOnlyWhenEnded ==
    [][(last'.op = "session-rating" /\ last'.room \in DOMAIN rooms
        /\ rooms[last'.room].status # "ended")
          => /\ last'.res # "200"
             /\ last'.sent = <<>>
             /\ rooms'[last'.room].ratings = rooms[last'.room].ratings]_vars

(* C40: a room that the empty-room timer or cleanupInactiveRooms removes    *)
(* has no client at the moment it is removed.                               *)
C40_NoOccupiedRoomRemoved ==
    [][last'.op \in {"cleanup-timer", "cleanup-rooms", "delete-room"}
          => \A r \in DOMAIN rooms \ DOMAIN rooms' : rooms[r].clients = {}]_vars

====
